---- MODULE Spec2Model ----
(***************************************************************************)
(* Model of the MDX parsing core of dioxus-docs-kit (crates/dioxus-mdx).   *)
(*                                                                         *)
(* Text is a sequence of atoms.  An atom is a run of characters that the   *)
(* parser never splits: one prose character ("x"), one whitespace          *)
(* character (" ", "\n"), one non-ASCII character ("U+00E9", two bytes in  *)
(* UTF-8), a punctuation character of the tag syntax ("<", "/", ">"), a    *)
(* tag-name part ("Card", "Group", "Tab", "s", ...) or one attribute       *)
(* (title="a").  Tag names that are prefixes of one another are split at   *)
(* the shared prefix, so that str::find and str::starts_with on the text   *)
(* are find and starts_with on the atoms.  Offsets count atoms.            *)
(***************************************************************************)
EXTENDS Integers, Sequences, FiniteSets, TLC

VARIABLES input, op, out

vars == <<input, op, out>>

(***************************************************************************)
(* Bounds of the model.                                                    *)
(***************************************************************************)
MaxFrags == 4

MaxUnits == 3

\* Parameters of a path item or an operation, responses of an operation and
\* OpenAPI specs of a site.
MaxParams == 2

MaxResponses == 2

MaxSpecs == 2

\* The depths generate_example_json is called with, and the arrays or
\* objects nested in a schema.
MaxDepth == 7

MaxChain == 7

(***************************************************************************)
(* str primitives (Rust std), on atom sequences.                           *)
(***************************************************************************)
None == -1

WsAtoms == {" ", "\n"}

NonAsciiAtoms == {"U+00E9"}

Take(s, n) == SubSeq(s, 1, n)

Drop(s, n) == SubSeq(s, n + 1, Len(s))

Slice(s, from, to) == SubSeq(s, from + 1, to)

RECURSIVE TrimStart(_)
TrimStart(s) ==
    IF s # <<>> /\ Head(s) \in WsAtoms THEN TrimStart(Tail(s)) ELSE s

RECURSIVE TrimEnd(_)
TrimEnd(s) ==
    IF s # <<>> /\ s[Len(s)] \in WsAtoms THEN TrimEnd(Take(s, Len(s) - 1)) ELSE s

Trim(s) == TrimEnd(TrimStart(s))

StartsWith(s, p) == Len(p) <= Len(s) /\ Take(s, Len(p)) = p

EndsWith(s, p) == Len(p) <= Len(s) /\ Drop(s, Len(s) - Len(p)) = p

MatchesAt(s, p, i) == i + Len(p) <= Len(s) /\ Slice(s, i, i + Len(p)) = p

\* str::find: the offset of the first match of p in s, or None.
Find(s, p) ==
    LET hits == {i \in 0..Len(s) : MatchesAt(s, p, i)}
    IN  IF hits = {} THEN None ELSE CHOOSE i \in hits : \A j \in hits : i <= j

\* s[pos..].find(p).map(|i| i + pos)
FindFrom(s, p, pos) ==
    LET hits == {i \in pos..Len(s) : MatchesAt(s, p, i)}
    IN  IF hits = {} THEN None ELSE CHOOSE i \in hits : \A j \in hits : i <= j

Contains(s, p) == Find(s, p) # None

(***************************************************************************)
(* utils.rs                                                                *)
(***************************************************************************)
OpenTag(tag_name) == <<"<">> \o tag_name

CloseTag(tag_name) == <<"<", "/">> \o tag_name \o <<">">>

RECURSIVE find_closing_tag_loop(_, _, _, _, _)
find_closing_tag_loop(content, open_tag, close_tag, depth, pos) ==
    IF ~(depth > 0 /\ pos < Len(content)) THEN None
    ELSE
        LET next_open == FindFrom(content, open_tag, pos)
            next_close == FindFrom(content, close_tag, pos)
        IN  IF next_open # None /\ next_close # None /\ next_open < next_close
            THEN find_closing_tag_loop(content, open_tag, close_tag,
                                       depth + 1, next_open + Len(open_tag))
            ELSE IF next_close # None
            THEN IF depth - 1 = 0 THEN next_close
                 ELSE find_closing_tag_loop(content, open_tag, close_tag,
                                            depth - 1, next_close + Len(close_tag))
            ELSE None

\* The search without the depth counter: the first closing tag of the text.
find_closing_tag_first(content, tag_name) == Find(content, CloseTag(tag_name))

find_closing_tag(content, tag_name) ==
    find_closing_tag_loop(content, OpenTag(tag_name), CloseTag(tag_name), 1, 0)

\* extract_attr: the value of the first attribute attr_name="..." in the tag
\* text, as an Option (<<>> is None, <<v>> is Some(v)).  An attribute is one
\* atom; AttrTable gives the name and the value each attribute atom spells.
AttrTable ==
    { <<"title=\"a\"", "title", "a">>, <<"title=\"b\"", "title", "b">>,
      <<"icon=\"i\"", "icon", "i">>, <<"href=\"/h\"", "href", "/h">>,
      <<"path=\"a\"", "path", "a">>, <<"path=\"b\"", "path", "b">>,
      <<"query=\"q\"", "query", "q">>, <<"type=\"t\"", "type", "t">>,
      <<"default=\"d\"", "default", "d">>,
      <<"name=\"a\"", "name", "a">>, <<"name=\"b\"", "name", "b">>,
      <<"label=\"l\"", "label", "l">>,
      <<"description=\"required\"", "description", "required">>,
      <<"tags=\"t\"", "tags", "t">> }

IsAttr(atom, attr_name) == \E row \in AttrTable : row[1] = atom /\ row[2] = attr_name

AttrValue(atom) == (CHOOSE row \in AttrTable : row[1] = atom)[3]

extract_attr(tag_content, attr_name) ==
    LET hits == {i \in 1..Len(tag_content) : IsAttr(tag_content[i], attr_name)}
    IN  IF hits = {} THEN <<>>
        ELSE <<AttrValue(tag_content[CHOOSE i \in hits : \A j \in hits : i <= j])>>

\* let v = ...; the value is computed once and used by name in F.
Bind(v, F(_)) == F(v)

UnwrapOr(opt, dflt) == IF opt = <<>> THEN dflt ELSE opt[1]

(***************************************************************************)
(* Results.  A call either returns a value (st = "ok"), panics (a slice    *)
(* index that is out of range or not on a character boundary) or never     *)
(* returns (a loop whose state no longer changes).  A try_parse_* result   *)
(* is an Option<(DocNode, &str)>: some = FALSE is None.                    *)
(***************************************************************************)
Ok(v) == [st |-> "ok", val |-> v]

Panics == [st |-> "panic", val |-> <<>>]

Diverges == [st |-> "diverge", val |-> <<>>]

NoMatch == [st |-> "ok", some |-> FALSE, node |-> <<>>, rest |-> <<>>]

Matched(node, rest) == [st |-> "ok", some |-> TRUE, node |-> node, rest |-> rest]

Failed(r) == [st |-> r.st, some |-> FALSE, node |-> <<>>, rest |-> <<>>]

\* The offset after the run of whitespace that starts at offset p (regex \s*).
RECURSIVE SkipWs(_, _)
SkipWs(s, p) == IF p < Len(s) /\ s[p + 1] \in WsAtoms THEN SkipWs(s, p + 1) ELSE p

AtomAt(s, p) == IF p < Len(s) THEN s[p + 1] ELSE ""

(***************************************************************************)
(* callout.rs                                                              *)
(***************************************************************************)
CalloutNames == {"Tip", "Note", "Warning", "Info"}

try_parse_callout(content) ==
    IF ~(Len(content) >= 3 /\ content[1] = "<" /\ content[2] \in CalloutNames
                           /\ content[3] = ">")
    THEN NoMatch
    ELSE
        LET tag_name == content[2]
            after_open == Drop(content, 3)
            close_tag == CloseTag(<<tag_name>>)
            close_idx == Find(after_open, close_tag)
        IN  IF close_idx = None THEN NoMatch
            ELSE Matched([kind |-> "Callout", callout_type |-> tag_name,
                          content |-> Trim(Take(after_open, close_idx))],
                         Drop(after_open, close_idx + Len(close_tag)))

(***************************************************************************)
(* card.rs                                                                 *)
(***************************************************************************)
CardName == <<"Card">>
CardGroupName == <<"Card", "Group">>
ColumnsName == <<"Columns">>

\* The cols attribute of the opening-tag regex, cols=\{?(\d+)\}?, is one atom.
ColsTable == { <<"cols={2}", 2>>, <<"cols={4}", 4>> }

IsCols(atom) == \E row \in ColsTable : row[1] = atom

ColsValue(atom) == (CHOOSE row \in ColsTable : row[1] = atom)[2]

\* ^<NAME(?:\s+cols=\{?(\d+)\}?)?\s*> : the offset after the match and the
\* cols capture, or end = None.
GroupOpenRe(content, tag_name, dflt) ==
    IF ~StartsWith(content, OpenTag(tag_name)) THEN [end |-> None, cols |-> dflt]
    ELSE
        LET p == Len(OpenTag(tag_name))
            w == SkipWs(content, p)
            hasCols == w > p /\ IsCols(AtomAt(content, w))
            q == SkipWs(content, IF hasCols THEN w + 1 ELSE p)
        IN  IF AtomAt(content, q) = ">"
            THEN [end |-> q + 1,
                  cols |-> IF hasCols THEN ColsValue(AtomAt(content, w)) ELSE dflt]
            ELSE [end |-> None, cols |-> dflt]

\* (?s)^<Card\s+(?:title="([^"]*)")?\s*(?:icon="([^"]*)")?\s*(?:href="([^"]*)")?\s*/>
SelfClosingCardRe(remaining) ==
    IF ~StartsWith(remaining, OpenTag(CardName)) THEN [end |-> None]
    ELSE
        LET p0 == Len(OpenTag(CardName))
        IN  Bind(SkipWs(remaining, p0), LAMBDA p1 :
        LET hasTitle == IsAttr(AtomAt(remaining, p1), "title")
        IN  Bind(SkipWs(remaining, IF hasTitle THEN p1 + 1 ELSE p1), LAMBDA p2 :
        LET hasIcon == IsAttr(AtomAt(remaining, p2), "icon")
        IN  Bind(SkipWs(remaining, IF hasIcon THEN p2 + 1 ELSE p2), LAMBDA p3 :
        LET hasHref == IsAttr(AtomAt(remaining, p3), "href")
        IN  Bind(SkipWs(remaining, IF hasHref THEN p3 + 1 ELSE p3), LAMBDA p4 :
            IF p1 > p0 /\ AtomAt(remaining, p4) = "/" /\ AtomAt(remaining, p4 + 1) = ">"
            THEN [end |-> p4 + 2,
                  card |-> [title |-> IF hasTitle THEN AttrValue(remaining[p1 + 1]) ELSE "",
                            icon |-> IF hasIcon THEN <<AttrValue(remaining[p2 + 1])>> ELSE <<>>,
                            href |-> IF hasHref THEN <<AttrValue(remaining[p3 + 1])>> ELSE <<>>,
                            content |-> <<>>]]
            ELSE [end |-> None]))))

\* Option<CardNode>: <<>> or <<card>>.
parse_single_card(content) ==
    LET tag_end == Find(content, <<">">>)
    IN  IF tag_end = None THEN <<>>
        ELSE
            LET tag_content == Slice(content, Len(OpenTag(CardName)), tag_end)
                is_self_closing == EndsWith(Trim(tag_content), <<"/">>)
                after_open == Drop(content, tag_end + 1)
                close_idx == find_closing_tag(after_open, CardName)
            IN  <<[title |-> UnwrapOr(extract_attr(tag_content, "title"), ""),
                   icon |-> extract_attr(tag_content, "icon"),
                   href |-> extract_attr(tag_content, "href"),
                   content |-> IF is_self_closing \/ close_idx = None THEN <<>>
                               ELSE Trim(Take(after_open, close_idx))]>>

\* Option<usize> as an offset or None.
find_card_end(content) ==
    LET tag_end == Find(content, <<">">>)
    IN  IF tag_end = None THEN None
        ELSE
            LET tag_content == Slice(content, Len(OpenTag(CardName)), tag_end)
                after_open == Drop(content, tag_end + 1)
                close_idx == find_closing_tag(after_open, CardName)
            IN  IF EndsWith(Trim(tag_content), <<"/">>) THEN tag_end + 1
                ELSE IF close_idx = None THEN None
                ELSE tag_end + 1 + close_idx + Len(CloseTag(CardName))

\* The while loop of parse_cards; the loop state is (remaining, cards).  The
\* last branch re-slices remaining at the next "<Card": at offset 0 the state
\* is the one the iteration started from, and the loop never ends.
RECURSIVE parse_cards_loop(_, _)
parse_cards_loop(remaining0, cards) ==
    IF remaining0 = <<>> THEN Ok(cards)
    ELSE
        Bind(Trim(remaining0), LAMBDA remaining :
        Bind(SelfClosingCardRe(remaining), LAMBDA sc :
        Bind(IF StartsWith(remaining, OpenTag(CardName)) THEN parse_single_card(remaining) ELSE <<>>, LAMBDA card :
        Bind(find_card_end(remaining), LAMBDA card_end :
        LET idx == Find(remaining, OpenTag(CardName))
        IN  IF sc.end # None
            THEN parse_cards_loop(Drop(remaining, sc.end), Append(cards, sc.card))
            ELSE IF card # <<>>
            THEN parse_cards_loop(
                     Drop(remaining, IF card_end = None THEN Len(remaining) ELSE card_end),
                     Append(cards, card[1]))
            ELSE IF idx = None THEN Ok(cards)
            ELSE IF Drop(remaining, idx) = remaining0 THEN Diverges
            ELSE parse_cards_loop(Drop(remaining, idx), cards)))))

parse_cards(content) == parse_cards_loop(Trim(content), <<>>)

try_parse_group(content, tag_name, dflt) ==
    LET open == GroupOpenRe(content, tag_name, dflt)
    IN  IF open.end = None THEN NoMatch
        ELSE
            LET after_open == Drop(content, open.end)
            IN  Bind(find_closing_tag(after_open, tag_name), LAMBDA close_idx :
                Bind(parse_cards(Take(after_open, close_idx)), LAMBDA cards :
                IF close_idx = None THEN NoMatch
                ELSE IF cards.st # "ok" THEN Failed(cards)
                ELSE Matched([kind |-> "CardGroup", cols |-> open.cols, cards |-> cards.val],
                             Drop(after_open, close_idx + Len(CloseTag(tag_name))))))

try_parse_card_group(content) == try_parse_group(content, CardGroupName, 2)

try_parse_columns(content) == try_parse_group(content, ColumnsName, 3)

try_parse_standalone_card(content) ==
    IF ~StartsWith(content, OpenTag(CardName)) THEN NoMatch
    ELSE
        Bind(parse_single_card(content), LAMBDA card :
        Bind(find_card_end(content), LAMBDA card_end :
            IF card = <<>> \/ card_end = None THEN NoMatch
            ELSE Matched([kind |-> "CardGroup", cols |-> 1, cards |-> card],
                         Drop(content, card_end))))

RECURSIVE parse_content(_)

\* remaining[1..] panics when offset 1 is out of range or inside a character.
SliceFrom1Panics(remaining) == remaining = <<>> \/ Head(remaining) \in NonAsciiAtoms

(***************************************************************************)
(* tabs.rs                                                                 *)
(***************************************************************************)
TabName == <<"Tab">>
TabsName == <<"Tab", "s">>

\* ^<NAME\s+title="([^"]*)"> at offset i: the offset after the match, or None.
TitledOpenAt(s, tag_name, i) ==
    LET p == i + Len(OpenTag(tag_name))
        w == SkipWs(s, p)
    IN  IF MatchesAt(s, OpenTag(tag_name), i) /\ w > p
           /\ IsAttr(AtomAt(s, w), "title") /\ AtomAt(s, w + 1) = ">"
        THEN w + 2 ELSE None

RECURSIVE parse_tabs_loop(_, _)
parse_tabs_loop(remaining0, tabs) ==
    IF remaining0 = <<>> THEN Ok(tabs)
    ELSE
        LET remaining == Trim(remaining0)
            open_end == TitledOpenAt(remaining, TabName, 0)
            after_open == Drop(remaining, open_end)
            close_idx == IF open_end = None THEN None
                         ELSE find_closing_tag(after_open, TabName)
        IN  Bind(parse_content(Trim(Take(after_open, close_idx))), LAMBDA parsed_content :
        LET idx == Find(Tail(remaining), OpenTag(TabName))
        IN  IF close_idx # None
            THEN IF parsed_content.st # "ok" THEN parsed_content
                 ELSE parse_tabs_loop(
                          Drop(after_open, close_idx + Len(CloseTag(TabName))),
                          Append(tabs, [title |-> AttrValue(remaining[open_end - 1]),
                                        content |-> parsed_content.val]))
            ELSE IF SliceFrom1Panics(remaining) THEN Panics
            ELSE IF idx = None THEN Ok(tabs)
            ELSE parse_tabs_loop(Drop(remaining, idx + 1), tabs))

parse_tabs(content) == parse_tabs_loop(Trim(content), <<>>)

try_parse_tabs(content) ==
    IF ~StartsWith(content, OpenTag(TabsName) \o <<">">>) THEN NoMatch
    ELSE
        LET after_open == Drop(content, Len(OpenTag(TabsName)) + 1)
            close_idx == find_closing_tag(after_open, TabsName)
        IN  Bind(parse_tabs(Take(after_open, close_idx)), LAMBDA tabs :
            IF close_idx = None THEN NoMatch
            ELSE IF tabs.st # "ok" THEN Failed(tabs)
            ELSE Matched([kind |-> "Tabs", tabs |-> tabs.val],
                         Drop(after_open, close_idx + Len(CloseTag(TabsName)))))

(***************************************************************************)
(* accordion.rs                                                            *)
(***************************************************************************)
AccordionName == <<"Accordion">>
AccordionGroupName == <<"Accordion", "Group">>

\* Option<AccordionNode> in val: <<>> or <<item>>.
parse_single_accordion(content) ==
    LET tag_end == Find(content, <<">">>)
        tag_content == Slice(content, Len(OpenTag(AccordionName)), tag_end)
        title == extract_attr(tag_content, "title")
        after_open == Drop(content, tag_end + 1)
        close_idx == find_closing_tag(after_open, AccordionName)
    IN  Bind(parse_content(Trim(Take(after_open, close_idx))), LAMBDA parsed_content :
        IF tag_end = None \/ title = <<>> \/ close_idx = None THEN Ok(<<>>)
        ELSE IF parsed_content.st # "ok" THEN parsed_content
        ELSE Ok(<<[title |-> title[1], icon |-> extract_attr(tag_content, "icon"),
                   content |-> parsed_content.val]>>))

find_accordion_end(content) ==
    LET tag_end == Find(content, <<">">>)
        after_open == Drop(content, tag_end + 1)
        close_idx == find_closing_tag(after_open, AccordionName)
    IN  IF tag_end = None \/ close_idx = None THEN None
        ELSE tag_end + 1 + close_idx + Len(CloseTag(AccordionName))

RECURSIVE parse_accordions_loop(_, _)
parse_accordions_loop(remaining0, items) ==
    IF remaining0 = <<>> THEN Ok(items)
    ELSE
        LET remaining == Trim(remaining0)
        IN  Bind(IF StartsWith(remaining, OpenTag(AccordionName)) THEN parse_single_accordion(remaining) ELSE Ok(<<>>), LAMBDA acc :
        LET acc_end == find_accordion_end(remaining)
            idx == Find(Tail(remaining), OpenTag(AccordionName))
        IN  IF acc.st # "ok" THEN acc
            ELSE IF acc.val # <<>>
            THEN parse_accordions_loop(
                     Drop(remaining, IF acc_end = None THEN Len(remaining) ELSE acc_end),
                     Append(items, acc.val[1]))
            ELSE IF SliceFrom1Panics(remaining) THEN Panics
            ELSE IF idx = None THEN Ok(items)
            ELSE parse_accordions_loop(Drop(remaining, idx + 1), items))

parse_accordions(content) == parse_accordions_loop(Trim(content), <<>>)

try_parse_accordion_group(content) ==
    IF ~StartsWith(content, OpenTag(AccordionGroupName) \o <<">">>) THEN NoMatch
    ELSE
        LET after_open == Drop(content, Len(OpenTag(AccordionGroupName)) + 1)
            close_idx == find_closing_tag(after_open, AccordionGroupName)
        IN  Bind(parse_accordions(Take(after_open, close_idx)), LAMBDA items :
            IF close_idx = None THEN NoMatch
            ELSE IF items.st # "ok" THEN Failed(items)
            ELSE Matched([kind |-> "AccordionGroup", items |-> items.val],
                         Drop(after_open, close_idx + Len(CloseTag(AccordionGroupName)))))

try_parse_standalone_accordion(content) ==
    IF ~StartsWith(content, OpenTag(AccordionName)) THEN NoMatch
    ELSE
        Bind(parse_single_accordion(content), LAMBDA accordion :
        LET acc_end == find_accordion_end(content)
        IN  IF accordion.st # "ok" THEN Failed(accordion)
            ELSE IF accordion.val = <<>> \/ acc_end = None THEN NoMatch
            ELSE Matched([kind |-> "AccordionGroup", items |-> accordion.val],
                         Drop(content, acc_end)))

(***************************************************************************)
(* steps.rs                                                                *)
(***************************************************************************)
StepName == <<"Step">>
StepsName == <<"Step", "s">>

Min(S) == CHOOSE i \in S : \A j \in S : i <= j

\* step_re.captures_iter(content): the successive non-overlapping matches of
\* (?s)<Step\s+title="([^"]*)">(.*?)</Step>, searched from offset pos on.
RECURSIVE StepCaptures(_, _)
StepCaptures(content, pos) ==
    Bind({i \in pos..Len(content) : /\ TitledOpenAt(content, StepName, i) # None /\ FindFrom(content, CloseTag(StepName), TitledOpenAt(content, StepName, i)) # None}, LAMBDA starts :
        IF starts = {} THEN <<>>
        ELSE
            LET i == Min(starts)
            IN  Bind(TitledOpenAt(content, StepName, i), LAMBDA open_end :
            Bind(FindFrom(content, CloseTag(StepName), open_end), LAMBDA close :
                <<[title |-> <<AttrValue(content[open_end - 1])>>,
                   inner |-> Slice(content, open_end, close)]>>
                \o StepCaptures(content, close + Len(CloseTag(StepName))))))

\* (?m)^###\s+(.+)$ at offset i: [start, end, title] of the match, or end = None.
\* \s+ is greedy and gives whitespace back until (.+) finds a character that
\* is not a newline; (.+) then runs to the end of its line.
LineEnd(s, p) == Bind(FindFrom(s, <<"\n">>, p), LAMBDA nl : IF nl = None THEN Len(s) ELSE nl)

HeadingAt(s, i) ==
    LET w == SkipWs(s, i + 1)
        cuts == {k \in (i + 2)..w : k < Len(s) /\ s[k + 1] # "\n"}
    IN  IF ~(MatchesAt(s, <<"###">>, i) /\ (i = 0 \/ s[i] = "\n")) \/ cuts = {}
        THEN [start |-> i, end |-> None, title |-> <<>>]
        ELSE LET k == CHOOSE c \in cuts : \A d \in cuts : d <= c
             IN  [start |-> i, end |-> LineEnd(s, k),
                  title |-> Trim(Slice(s, k, LineEnd(s, k)))]

RECURSIVE HeadingCaptures(_, _)
HeadingCaptures(content, pos) ==
    Bind({i \in pos..Len(content) : HeadingAt(content, i).end # None}, LAMBDA starts :
    Bind(HeadingAt(content, Min(starts)), LAMBDA m :
        IF starts = {} THEN <<>>
        ELSE <<m>> \o HeadingCaptures(content, m.end)))

\* The bodies of the steps, parsed in order; caps[j] = [title, inner].
RECURSIVE parse_step_bodies(_, _)
parse_step_bodies(caps, steps) ==
    IF caps = <<>> THEN Ok(steps)
    ELSE
        Bind(parse_content(Trim(Head(caps).inner)), LAMBDA parsed_content :
            IF parsed_content.st # "ok" THEN parsed_content
            ELSE parse_step_bodies(Tail(caps),
                     Append(steps, [title |-> Head(caps).title,
                                    content |-> parsed_content.val])))

\* parse_steps without the early return: the heading steps are added to the tagged ones.
parse_steps_both(content) ==
    Bind(StepCaptures(content, 0), LAMBDA tagged :
    Bind(HeadingCaptures(content, 0), LAMBDA headings :
    LET sections == [i \in 1..Len(headings) |->
                        [title |-> headings[i].title,
                         inner |-> Slice(content, headings[i].end,
                                         IF i + 1 <= Len(headings)
                                         THEN headings[i + 1].start ELSE Len(content))]]
    IN  parse_step_bodies(tagged \o sections, <<>>)))

parse_steps(content) ==
    Bind(StepCaptures(content, 0), LAMBDA tagged :
    Bind(HeadingCaptures(content, 0), LAMBDA headings :
    LET sections == [i \in 1..Len(headings) |->
                        [title |-> headings[i].title,
                         inner |-> Slice(content, headings[i].end,
                                         IF i + 1 <= Len(headings)
                                         THEN headings[i + 1].start ELSE Len(content))]]
    IN  parse_step_bodies(IF tagged # <<>> THEN tagged ELSE sections, <<>>)))

try_parse_steps(content) ==
    IF ~StartsWith(content, OpenTag(StepsName) \o <<">">>) THEN NoMatch
    ELSE
        LET after_open == Drop(content, Len(OpenTag(StepsName)) + 1)
            close_idx == find_closing_tag(after_open, StepsName)
        IN  Bind(parse_steps(Take(after_open, close_idx)), LAMBDA steps :
            IF close_idx = None THEN NoMatch
            ELSE IF steps.st # "ok" THEN Failed(steps)
            ELSE Matched([kind |-> "Steps", steps |-> steps.val],
                         Drop(after_open, close_idx + Len(CloseTag(StepsName)))))

(***************************************************************************)
(* update.rs                                                               *)
(***************************************************************************)
UpdateName == <<"Update">>

try_parse_update(content) ==
    IF ~StartsWith(content, OpenTag(UpdateName)) THEN NoMatch
    ELSE
        LET tag_end == Find(content, <<">">>)
            tag_content == Slice(content, Len(OpenTag(UpdateName)), tag_end)
            label == extract_attr(tag_content, "label")
            after_open == Drop(content, tag_end + 1)
            close_idx == find_closing_tag(after_open, UpdateName)
        IN  Bind(parse_content(Trim(Take(after_open, close_idx))), LAMBDA parsed_content :
            IF tag_end = None \/ label = <<>> \/ close_idx = None THEN NoMatch
            ELSE IF parsed_content.st # "ok" THEN Failed(parsed_content)
            ELSE Matched([kind |-> "Update", label |-> label[1],
                          description |-> UnwrapOr(extract_attr(tag_content, "description"), ""),
                          content |-> parsed_content.val],
                         Drop(after_open, close_idx + Len(CloseTag(UpdateName)))))

(***************************************************************************)
(* fields.rs                                                               *)
(***************************************************************************)
ParamFieldName == <<"ParamField">>
ResponseFieldName == <<"ResponseField">>
ExpandableName == <<"Expandable">>

\* tag_content.contains("required"): the atoms whose text holds the substring.
RequiredAtoms == {"required", "description=\"required\""}

ContainsRequired(tag_content) == \E i \in 1..Len(tag_content) : tag_content[i] \in RequiredAtoms

ParamLocations == <<"header", "path", "query", "body">>

try_parse_param_field(content) ==
    IF ~StartsWith(content, OpenTag(ParamFieldName)) THEN NoMatch
    ELSE
        LET tag_end == Find(content, <<">">>)
            tag_content == Slice(content, Len(OpenTag(ParamFieldName)), tag_end)
            locs == {i \in 1..Len(ParamLocations) :
                        extract_attr(tag_content, ParamLocations[i]) # <<>>}
            location == ParamLocations[Min(locs)]
            after_open == Drop(content, tag_end + 1)
            close_idx == find_closing_tag(after_open, ParamFieldName)
        IN  Bind(parse_content(Trim(Take(after_open, close_idx))), LAMBDA parsed_content :
        LET node == [kind |-> "ParamField",
                     name |-> extract_attr(tag_content, location)[1],
                     location |-> location,
                     param_type |-> UnwrapOr(extract_attr(tag_content, "type"), "string"),
                     required |-> ContainsRequired(tag_content),
                     default |-> extract_attr(tag_content, "default"),
                     content |-> <<>>]
        IN  IF tag_end = None \/ locs = {} THEN NoMatch
            ELSE IF EndsWith(Trim(tag_content), <<"/">>)
            THEN Matched(node, Drop(content, tag_end + 1))
            ELSE IF close_idx = None THEN NoMatch
            ELSE IF parsed_content.st # "ok" THEN Failed(parsed_content)
            ELSE Matched([node EXCEPT !.content = parsed_content.val],
                         Drop(after_open, close_idx + Len(CloseTag(ParamFieldName)))))

RECURSIVE try_parse_response_field(_)

\* The while loop of parse_response_fields.
RECURSIVE parse_response_fields_loop(_, _)
parse_response_fields_loop(remaining0, fields) ==
    IF remaining0 = <<>> THEN Ok(fields)
    ELSE
        LET remaining == Trim(remaining0)
        IN  Bind(IF StartsWith(remaining, OpenTag(ResponseFieldName)) THEN try_parse_response_field(remaining) ELSE NoMatch, LAMBDA field :
        LET idx == Find(Tail(remaining), OpenTag(ResponseFieldName))
        IN  IF field.st # "ok" THEN [st |-> field.st, val |-> <<>>]
            ELSE IF field.some
            THEN parse_response_fields_loop(field.rest, Append(fields, field.node))
            ELSE IF SliceFrom1Panics(remaining) THEN Panics
            ELSE IF idx = None THEN Ok(fields)
            ELSE parse_response_fields_loop(Drop(remaining, idx + 1), fields))

parse_response_fields(content) == parse_response_fields_loop(Trim(content), <<>>)

\* Option<ExpandableNode> in val: <<>> or <<expandable>>.
parse_nested_expandable(content) ==
    LET start == Find(content, OpenTag(ExpandableName))
        tag_end == FindFrom(content, <<">">>, start)
        tag_content == Slice(content, start + Len(OpenTag(ExpandableName)), tag_end)
        after_open == Drop(content, tag_end + 1)
        close_idx == find_closing_tag(after_open, ExpandableName)
    IN  Bind(parse_response_fields(Take(after_open, close_idx)), LAMBDA fields :
        IF start = None \/ tag_end = None \/ close_idx = None THEN Ok(<<>>)
        ELSE IF fields.st # "ok" THEN fields
        ELSE Ok(<<[title |-> UnwrapOr(extract_attr(tag_content, "title"), "Properties"),
                   fields |-> fields.val]>>))

try_parse_response_field(content) ==
    IF ~StartsWith(content, OpenTag(ResponseFieldName)) THEN NoMatch
    ELSE
        LET tag_end == Find(content, <<">">>)
            tag_content == Slice(content, Len(OpenTag(ResponseFieldName)), tag_end)
            name == extract_attr(tag_content, "name")
            after_open == Drop(content, tag_end + 1)
            close_idx == find_closing_tag(after_open, ResponseFieldName)
            inner == Take(after_open, close_idx)
        IN  Bind(parse_nested_expandable(inner), LAMBDA expandable :
        LET exp_start == Find(inner, OpenTag(ExpandableName))
            node == [kind |-> "ResponseField",
                     name |-> name[1],
                     field_type |-> UnwrapOr(extract_attr(tag_content, "type"), "any"),
                     required |-> ContainsRequired(tag_content),
                     content |-> <<>>,
                     expandable |-> <<>>]
        IN  IF tag_end = None \/ name = <<>> THEN NoMatch
            ELSE IF EndsWith(Trim(tag_content), <<"/">>)
            THEN Matched(node, Drop(content, tag_end + 1))
            ELSE IF close_idx = None THEN NoMatch
            ELSE IF expandable.st # "ok" THEN Failed(expandable)
            ELSE Matched([node EXCEPT
                             !.content = IF expandable.val # <<>> /\ exp_start # None
                                         THEN Trim(Take(inner, exp_start))
                                         ELSE Trim(inner),
                             !.expandable = expandable.val],
                         Drop(after_open, close_idx + Len(CloseTag(ResponseFieldName)))))

try_parse_expandable(content) ==
    IF ~StartsWith(content, OpenTag(ExpandableName)) THEN NoMatch
    ELSE
        LET tag_end == Find(content, <<">">>)
            tag_content == Slice(content, Len(OpenTag(ExpandableName)), tag_end)
            after_open == Drop(content, tag_end + 1)
            close_idx == find_closing_tag(after_open, ExpandableName)
        IN  Bind(parse_response_fields(Take(after_open, close_idx)), LAMBDA fields :
            IF tag_end = None \/ close_idx = None THEN NoMatch
            ELSE IF fields.st # "ok" THEN Failed(fields)
            ELSE Matched([kind |-> "Expandable",
                          title |-> UnwrapOr(extract_attr(tag_content, "title"), "Details"),
                          fields |-> fields.val],
                         Drop(after_open, close_idx + Len(CloseTag(ExpandableName)))))

(***************************************************************************)
(* code_group.rs                                                           *)
(***************************************************************************)
CodeGroupName == <<"CodeGroup">>
RequestExampleName == <<"RequestExample">>
ResponseExampleName == <<"ResponseExample">>

\* A code fence, three backticks (a TLA+ string cannot hold a backtick).
Fence == <<"'''">>

\* The atoms that are not made of word characters (regex \w) only.
NonWordAtoms ==
    WsAtoms \cup {"<", "/", ">", "'''", "###", "-", "{openapi}", "title: T", "title: ["}
             \cup {row[1] : row \in AttrTable} \cup {row[1] : row \in ColsTable}

IsWord(atom) == atom # "" /\ atom \notin NonWordAtoms

\* The offset after the run of word atoms that starts at offset p (regex \w*).
RECURSIVE SkipWord(_, _)
SkipWord(s, p) == IF p < Len(s) /\ IsWord(s[p + 1]) THEN SkipWord(s, p + 1) ELSE p

\* ```(\w+)?(?:\s+([^\n]+))?\n([\s\S]*?)``` with its opening fence at offset i:
\* [end, block], or end = None.  The optional group is tried first, with \s+
\* from its longest to its shortest run; then the pattern without the group.
CodeBlockAt(s, i) ==
    Bind(SkipWord(s, i + 1), LAMBDA q :
    Bind(SkipWs(s, q), LAMBDA w :
    LET language == IF q > i + 1 THEN <<Slice(s, i + 1, q)>> ELSE <<>>
        \* the group with \s+ ending at offset k: the line of the file name
        \* must end in a newline and a fence must follow
    IN  Bind({k \in (q + 1)..w : /\ k < Len(s) /\ s[k + 1] # "\n" /\ LineEnd(s, k) < Len(s) /\ FindFrom(s, Fence, LineEnd(s, k) + 1) # None}, LAMBDA viable :
    Bind(CHOOSE c \in viable : \A d \in viable : d <= c, LAMBDA k :
    Bind(IF AtomAt(s, q) = "\n" THEN FindFrom(s, Fence, q + 1) ELSE None, LAMBDA plain :
        IF ~MatchesAt(s, Fence, i) THEN [end |-> None]
        ELSE IF viable # {}
        THEN [end |-> FindFrom(s, Fence, LineEnd(s, k) + 1) + 1,
              block |-> [kind |-> "CodeBlock", language |-> language,
                         filename |-> <<Slice(s, k, LineEnd(s, k))>>,
                         code |-> Trim(Slice(s, LineEnd(s, k) + 1,
                                             FindFrom(s, Fence, LineEnd(s, k) + 1)))]]
        ELSE IF plain # None
        THEN [end |-> plain + 1,
              block |-> [kind |-> "CodeBlock", language |-> language, filename |-> <<>>,
                         code |-> Trim(Slice(s, q + 1, plain))]]
        ELSE [end |-> None])))))

RECURSIVE parse_code_blocks_from(_, _)
parse_code_blocks_from(content, pos) ==
    Bind({i \in pos..Len(content) : CodeBlockAt(content, i).end # None}, LAMBDA starts :
    Bind(CodeBlockAt(content, Min(starts)), LAMBDA m :
        IF starts = {} THEN <<>>
        ELSE <<m.block>> \o parse_code_blocks_from(content, m.end)))

parse_code_blocks(content) == parse_code_blocks_from(content, 0)

try_parse_code_container(content, tag_name, kind) ==
    IF ~StartsWith(content, OpenTag(tag_name) \o <<">">>) THEN NoMatch
    ELSE
        LET after_open == Drop(content, Len(OpenTag(tag_name)) + 1)
            close_idx == find_closing_tag(after_open, tag_name)
        IN  IF close_idx = None THEN NoMatch
            ELSE Matched([kind |-> kind,
                          blocks |-> parse_code_blocks(Take(after_open, close_idx))],
                         Drop(after_open, close_idx + Len(CloseTag(tag_name))))

try_parse_code_group(content) == try_parse_code_container(content, CodeGroupName, "CodeGroup")

try_parse_request_example(content) ==
    try_parse_code_container(content, RequestExampleName, "RequestExample")

try_parse_response_example(content) ==
    try_parse_code_container(content, ResponseExampleName, "ResponseExample")

(***************************************************************************)
(* openapi_tag.rs                                                          *)
(***************************************************************************)
OpenAPIName == <<"OpenAPI">>

\* parse_openapi(inner).ok(): the atom "{openapi}" is the text of a document
\* that deserializes; any other text does not.
parse_openapi_ok(inner) == inner = <<"{openapi}">>

try_parse_openapi(content) ==
    IF ~StartsWith(content, OpenTag(OpenAPIName)) THEN NoMatch
    ELSE
        LET tag_end == Find(content, <<">">>)
            tag_content == Slice(content, Len(OpenTag(OpenAPIName)), tag_end)
            after_open == Drop(content, tag_end + 1)
            close_idx == find_closing_tag(after_open, OpenAPIName)
            inner == Trim(Take(after_open, close_idx))
        IN  IF tag_end = None \/ EndsWith(Trim(tag_content), <<"/">>) \/ close_idx = None
               \/ ~parse_openapi_ok(inner)
            THEN NoMatch
            ELSE Matched([kind |-> "OpenApi", spec |-> inner,
                          tags |-> extract_attr(tag_content, "tags"),
                          show_schemas |-> ~Contains(tag_content, <<"hideSchemas">>)],
                         Drop(after_open, close_idx + Len(CloseTag(OpenAPIName))))

(***************************************************************************)
(* content.rs                                                              *)
(***************************************************************************)
\* The offset after the run of spaces that starts at offset p (regex [ \t]*).
RECURSIVE SkipSpaces(_, _)
SkipSpaces(s, p) == IF p < Len(s) /\ s[p + 1] = " " THEN SkipSpaces(s, p + 1) ELSE p

\* code_re of extract_code_blocks_from_markdown with the match starting at
\* offset i: [start, end, block], or end = None.
\* (?m)^[ \t]*```(\w+)?(?:[ \t]+([^\r\n]+))?[ \t]*\r?\n([\s\S]*?)\r?\n[ \t]*```[ \t]*(?:\r?\n|$)
MarkdownFenceAt(s, i) ==
    Bind(SkipSpaces(s, i), LAMBDA a :
    Bind(SkipWord(s, a + 1), LAMBDA q :
    Bind(SkipSpaces(s, q), LAMBDA sp :
    Bind(LineEnd(s, q), LAMBDA le :
    \* the file name group, [ \t]+ ending at offset k
    Bind({k \in (q + 1)..sp : k < le}, LAMBDA names :
    \* the line break before the closing fence, at offset b
    Bind({b \in (le + 1)..Len(s) :
             /\ AtomAt(s, b) = "\n"
             /\ MatchesAt(s, Fence, SkipSpaces(s, b + 1))
             /\ Bind(SkipSpaces(s, SkipSpaces(s, b + 1) + 1), LAMBDA d :
                     d = Len(s) \/ s[d + 1] = "\n")}, LAMBDA closes :
        IF ~((i = 0 \/ s[i] = "\n") /\ MatchesAt(s, Fence, a)) \/ le >= Len(s)
           \/ (names = {} /\ sp # le) \/ closes = {}
        THEN [start |-> i, end |-> None]
        ELSE Bind(Min(closes), LAMBDA b :
             Bind(SkipSpaces(s, SkipSpaces(s, b + 1) + 1), LAMBDA d :
                 [start |-> i, end |-> IF d = Len(s) THEN d ELSE d + 1,
                  block |-> [kind |-> "CodeBlock",
                             language |-> IF q > a + 1 THEN <<Slice(s, a + 1, q)>> ELSE <<>>,
                             filename |-> IF names # {} THEN <<Slice(s, CHOOSE c \in names : \A e \in names : e <= c, le)>> ELSE <<>>,
                             code |-> Trim(Slice(s, le + 1, b))]]))))))))

\* A variant that pushes the markdown span twice.
MarkdownNodesTwice(text) ==
    IF Trim(text) # <<>>
    THEN <<[kind |-> "Markdown", text |-> Trim(text)], [kind |-> "Markdown", text |-> Trim(text)]>>
    ELSE <<>>

MarkdownNodes(text) ==
    IF Trim(text) # <<>> THEN <<[kind |-> "Markdown", text |-> Trim(text)]>> ELSE <<>>

\* The captures_iter loop of extract_code_blocks_from_markdown, and the text
\* after the last code block.
RECURSIVE code_blocks_from(_, _)
code_blocks_from(content, last_end) ==
    Bind({i \in last_end..Len(content) : MarkdownFenceAt(content, i).end # None}, LAMBDA starts :
    Bind(MarkdownFenceAt(content, Min(starts)), LAMBDA m :
        IF starts = {}
        THEN MarkdownNodes(Drop(content, last_end))
        ELSE MarkdownNodes(Slice(content, last_end, m.start)) \o <<m.block>>
             \o code_blocks_from(content, m.end)))

extract_code_blocks_from_markdown(content) ==
    Bind(code_blocks_from(content, 0), LAMBDA nodes :
        IF nodes = <<>> THEN MarkdownNodes(content) ELSE nodes)

ComponentPatterns ==
    { <<"<", "Tip", ">">>, <<"<", "Note", ">">>, <<"<", "Warning", ">">>,
      <<"<", "Info", ">">>, <<"<", "Card">>, <<"<", "Card", "Group">>,
      <<"<", "Columns">>, <<"<", "Tab", "s", ">">>, <<"<", "Step", "s", ">">>,
      <<"<", "Accordion", "Group", ">">>, <<"<", "Accordion">>, <<"<", "ParamField">>,
      <<"<", "ResponseField">>, <<"<", "Expandable">>, <<"<", "RequestExample", ">">>,
      <<"<", "ResponseExample", ">">>, <<"<", "CodeGroup", ">">>, <<"<", "Update">>,
      <<"<", "OpenAPI">> }

find_next_component(content) ==
    LET found == {Find(content, p) : p \in ComponentPatterns} \ {None}
    IN  IF found = {} THEN None ELSE Min(found)

\* The if / else-if chain of parse_content: the result of the first parser
\* that accepts the text (or that does not return).
Accepts(r) == r.st # "ok" \/ r.some

Parser(i, remaining) ==
    CASE i = 1 -> try_parse_callout(remaining)
      [] i = 2 -> try_parse_card_group(remaining)
      [] i = 3 -> try_parse_columns(remaining)
      [] i = 4 -> try_parse_standalone_card(remaining)
      [] i = 5 -> try_parse_tabs(remaining)
      [] i = 6 -> try_parse_steps(remaining)
      [] i = 7 -> try_parse_accordion_group(remaining)
      [] i = 8 -> try_parse_standalone_accordion(remaining)
      [] i = 9 -> try_parse_param_field(remaining)
      [] i = 10 -> try_parse_response_field(remaining)
      [] i = 11 -> try_parse_expandable(remaining)
      [] i = 12 -> try_parse_code_group(remaining)
      [] i = 13 -> try_parse_request_example(remaining)
      [] i = 14 -> try_parse_response_example(remaining)
      [] i = 15 -> try_parse_update(remaining)
      [] i = 16 -> try_parse_openapi(remaining)

RECURSIVE TryComponentsFrom(_, _)
TryComponentsFrom(i, remaining) ==
    IF i = 16 THEN Parser(i, remaining)
    ELSE Bind(Parser(i, remaining), LAMBDA r :
             IF Accepts(r) THEN r ELSE TryComponentsFrom(i + 1, remaining))

TryComponents(remaining) == TryComponentsFrom(1, remaining)

\* A variant of the markdown branch without the forced skip: a tag that no
\* parser accepts takes the rest of the text with it.
MarkdownToEnd(remaining) ==
    LET next_component_idx == find_next_component(remaining)
    IN  IF next_component_idx = None \/ next_component_idx = 0 THEN Len(remaining)
        ELSE next_component_idx

MarkdownEnd(remaining) ==
    LET next_component_idx == find_next_component(remaining)
        gt == Find(remaining, <<">">>)
    IN  IF next_component_idx = None THEN Len(remaining)
        ELSE IF next_component_idx = 0 THEN (IF gt = None THEN 1 ELSE gt + 1)
        ELSE next_component_idx

\* The while loop of parse_content; the loop state is (remaining, nodes).
RECURSIVE parse_content_loop(_, _)
parse_content_loop(remaining, nodes) ==
    IF remaining = <<>> THEN Ok(nodes)
    ELSE
        Bind(TryComponents(remaining), LAMBDA r :
        LET cut == MarkdownEnd(remaining)
            markdown == Take(remaining, cut)
        IN  IF r.st # "ok" THEN [st |-> r.st, val |-> <<>>]
            ELSE IF r.some
            THEN parse_content_loop(Trim(r.rest), Append(nodes, r.node))
            ELSE parse_content_loop(
                     Trim(Drop(remaining, cut)),
                     nodes \o (IF Trim(markdown) # <<>>
                               THEN extract_code_blocks_from_markdown(Trim(markdown))
                               ELSE <<>>)))

parse_content(content) == parse_content_loop(Trim(content), <<>>)

(***************************************************************************)
(* frontmatter.rs                                                          *)
(***************************************************************************)
DefaultFrontmatter == [title |-> "", description |-> <<>>, sidebar_title |-> <<>>, icon |-> <<>>]

Delim == <<"-", "-", "-">>

\* The lines of a text (str::lines), each trimmed; blank lines left out.
RECURSIVE NonBlankLines(_)
NonBlankLines(s) ==
    LET nl == Find(s, <<"\n">>)
        first == Trim(IF nl = None THEN s ELSE Take(s, nl))
        rest == IF nl = None THEN <<>> ELSE NonBlankLines(Drop(s, nl + 1))
    IN  IF s = <<>> THEN <<>>
        ELSE IF first = <<>> THEN rest ELSE <<first>> \o rest

\* serde_yaml::from_str::<DocFrontmatter>(yaml_content), as Ok(fm) or Err:
\* <<fm>> or <<>>.  The atom "title: T" is a mapping entry; an empty document
\* gives the defaults; every other text of the model (prose, dashes, the
\* unclosed flow sequence "title: [", a repeated key) is an error.
serde_yaml_from_str(yaml_content) ==
    LET entries == NonBlankLines(yaml_content)
    IN  IF entries = <<>> THEN <<DefaultFrontmatter>>
        ELSE IF entries = << <<"title: T">> >>
        THEN <<[DefaultFrontmatter EXCEPT !.title = "T"]>>
        ELSE <<>>

\* A variant whose remainder starts at the closing delimiter instead of after it.
extract_frontmatter_from_delim(content0) ==
    LET content == Trim(content0)
        after_first_delim == Drop(content, Len(Delim))
        end_idx == Find(after_first_delim, <<"\n">> \o Delim)
        yaml_content == Trim(Take(after_first_delim, end_idx))
        remaining == TrimStart(Drop(after_first_delim, end_idx))
        parsed == serde_yaml_from_str(yaml_content)
    IN  IF ~StartsWith(content, Delim) THEN [fm |-> DefaultFrontmatter, rest |-> content]
        ELSE IF end_idx = None THEN [fm |-> DefaultFrontmatter, rest |-> content]
        ELSE IF parsed = <<>> THEN [fm |-> DefaultFrontmatter, rest |-> content]
        ELSE [fm |-> parsed[1], rest |-> remaining]

\* A variant whose Err arm returns the text after the block instead of the
\* whole text.
extract_frontmatter_err_remaining(content0) ==
    LET content == Trim(content0)
        after_first_delim == Drop(content, Len(Delim))
        end_idx == Find(after_first_delim, <<"\n">> \o Delim)
        yaml_content == Trim(Take(after_first_delim, end_idx))
        remaining == TrimStart(Drop(after_first_delim, end_idx + 1 + Len(Delim)))
        parsed == serde_yaml_from_str(yaml_content)
    IN  IF ~StartsWith(content, Delim) THEN [fm |-> DefaultFrontmatter, rest |-> content]
        ELSE IF end_idx = None THEN [fm |-> DefaultFrontmatter, rest |-> content]
        ELSE IF parsed = <<>> THEN [fm |-> DefaultFrontmatter, rest |-> remaining]
        ELSE [fm |-> parsed[1], rest |-> remaining]

extract_frontmatter(content0) ==
    LET content == Trim(content0)
        after_first_delim == Drop(content, Len(Delim))
        end_idx == Find(after_first_delim, <<"\n">> \o Delim)
        yaml_content == Trim(Take(after_first_delim, end_idx))
        remaining == TrimStart(Drop(after_first_delim, end_idx + 1 + Len(Delim)))
        parsed == serde_yaml_from_str(yaml_content)
    IN  IF ~StartsWith(content, Delim) THEN [fm |-> DefaultFrontmatter, rest |-> content]
        ELSE IF end_idx = None THEN [fm |-> DefaultFrontmatter, rest |-> content]
        ELSE IF parsed = <<>> THEN [fm |-> DefaultFrontmatter, rest |-> content]
        ELSE [fm |-> parsed[1], rest |-> remaining]

(***************************************************************************)
(* openapi_types.rs.  Strings are atom sequences, as above; a JSON value   *)
(* (serde_json::Value) is a record [t, v].                                 *)
(***************************************************************************)
JStr(s) == [t |-> "string", v |-> s]
JInt(n) == [t |-> "int", v |-> n]
JFloat(n) == [t |-> "float", v |-> n]
JBool(b) == [t |-> "bool", v |-> b]
JNull == [t |-> "null", v |-> <<>>]
JArr(items) == [t |-> "array", v |-> items]
JObj(map) == [t |-> "object", v |-> map]

EmptyMap == [name \in {} |-> <<>>]

\* The names of the model in the order of a BTreeMap (the order of str).
SortedNames == << <<"a">>, <<"b">>, <<"id">>, <<"q">> >>

Keys(map) == SelectSeq(SortedNames, LAMBDA name : name \in DOMAIN map)

\* The texts that serde_json::from_str reads as a value; any other text of
\* the model is not JSON.
JsonTexts ==
    { << <<"7">>, JInt(7) >>, << <<"true">>, JBool(TRUE) >>, << <<"{", "}">>, JObj(EmptyMap) >>,
      << <<"\"", "q", "\"">>, JStr(<<"q">>) >> }

serde_json_from_str(s) ==
    IF \E row \in JsonTexts : row[1] = s
    THEN <<(CHOOSE row \in JsonTexts : row[1] = s)[2]>>
    ELSE <<>>

\* The texts that str::parse::<i64> reads.
I64Texts == { << <<"7">>, 7 >>, << <<"0">>, 0 >> }

parse_i64(s) ==
    IF \E row \in I64Texts : row[1] = s
    THEN <<(CHOOSE row \in I64Texts : row[1] = s)[2]>>
    ELSE <<>>

\* str::repeat of the two-space indent of serde_json's pretty printer.
RECURSIVE Indent(_)
Indent(n) == IF n = 0 THEN <<>> ELSE <<"  ">> \o Indent(n - 1)

RECURSIVE JoinWith(_, _)
JoinWith(parts, sep) ==
    IF parts = <<>> THEN <<>>
    ELSE IF Len(parts) = 1 THEN parts[1]
    ELSE parts[1] \o sep \o JoinWith(Tail(parts), sep)

\* Value::to_string (pretty = FALSE) and serde_json::to_string_pretty
\* (pretty = TRUE) at nesting level n.
RECURSIVE json_text(_, _, _)
json_text(value, pretty, n) ==
    LET open == IF pretty THEN <<"\n">> \o Indent(n + 1) ELSE <<>>
        sep == <<",">> \o open
        close == IF pretty THEN <<"\n">> \o Indent(n) ELSE <<>>
        colon == IF pretty THEN <<":", " ">> ELSE <<":">>
    IN  CASE value.t = "string" -> <<"\"">> \o value.v \o <<"\"">>
          [] value.t = "int" -> <<ToString(value.v)>>
          [] value.t = "float" -> <<ToString(value.v), ".", "0">>
          [] value.t = "bool" -> IF value.v THEN <<"true">> ELSE <<"false">>
          [] value.t = "null" -> <<"null">>
          [] value.t = "array" ->
                IF value.v = <<>> THEN <<"[", "]">>
                ELSE <<"[">> \o open
                     \o JoinWith([i \in 1..Len(value.v) |-> json_text(value.v[i], pretty, n + 1)], sep)
                     \o close \o <<"]">>
          [] value.t = "object" ->
                IF DOMAIN value.v = {} THEN <<"{", "}">>
                ELSE <<"{">> \o open
                     \o JoinWith([i \in 1..Len(Keys(value.v)) |->
                                     <<"\"">> \o Keys(value.v)[i] \o <<"\"">> \o colon
                                     \o json_text(value.v[Keys(value.v)[i]], pretty, n + 1)], sep)
                     \o close \o <<"}">>

to_string(value) == json_text(value, FALSE, 0)

to_string_pretty(value) == json_text(value, TRUE, 0)

\* HttpMethod::as_str
MethodStr ==
    [Get |-> <<"G", "E", "T">>, Post |-> <<"P", "O", "S", "T">>, Put |-> <<"P", "U", "T">>,
     Delete |-> <<"D", "E", "L", "E", "T", "E">>, Patch |-> <<"P", "A", "T", "C", "H">>,
     Head |-> <<"H", "E", "A", "D">>, Options |-> <<"O", "P", "T", "I", "O", "N", "S">>]

\* char::is_uppercase and char::to_lowercase on the letters of the model; the
\* lower case of a name that Debug prints (extract_format) is one atom.
LowerTable ==
    { <<"A", "a">>, <<"B", "b">>, <<"C", "c">>, <<"D", "d">>, <<"E", "e">>, <<"G", "g">>,
      <<"H", "h">>, <<"I", "i">>, <<"L", "l">>, <<"N", "n">>, <<"O", "o">>, <<"P", "p">>,
      <<"S", "s">>, <<"T", "t">>, <<"U", "u">>, <<"DateTime", "datetime">>,
      <<"Date", "date">>, <<"Int64", "int64">> }

is_uppercase(ch) == \E row \in LowerTable : row[1] = ch /\ Len(ch) = 1

to_lowercase_char(ch) ==
    IF \E row \in LowerTable : row[1] = ch
    THEN (CHOOSE row \in LowerTable : row[1] = ch)[2]
    ELSE ch

\* The chars that are Cased and the chars that are Case_Ignorable, among the atoms of the model.
Cased ==
    {row[1] : row \in LowerTable} \cup {row[2] : row \in LowerTable}
        \cup {"f", "r", "v", "w", "x", "y", "U+00E9", "U+03A3", "U+03C3", "U+03C2", "U+0130"}

CaseIgnorable == {".", "'", "U+0307"}

\* case_ignorable_then_cased of str::to_lowercase, over the chars of s in order.
RECURSIVE case_ignorable_then_cased(_)
case_ignorable_then_cased(s) ==
    IF s = <<>> THEN FALSE
    ELSE IF s[1] \in CaseIgnorable THEN case_ignorable_then_cased(Tail(s))
    ELSE s[1] \in Cased

Reverse(s) == [i \in 1..Len(s) |-> s[Len(s) + 1 - i]]

\* map_uppercase_sigma of str::to_lowercase: U+03A3 at the end of a word is U+03C2.
map_uppercase_sigma(s, i) ==
    IF /\ case_ignorable_then_cased(Reverse(Take(s, i - 1)))
       /\ ~case_ignorable_then_cased(Drop(s, i))
    THEN "U+03C2"
    ELSE "U+03C3"

\* str::to_lowercase: char by char, except U+03A3 (by its place in the word) and U+0130 (two
\* chars: i and the combining dot U+0307).
to_lowercase(s) ==
    JoinWith([i \in 1..Len(s) |->
                 IF s[i] = "U+03A3" THEN <<map_uppercase_sigma(s, i)>>
                 ELSE IF s[i] = "U+0130" THEN <<"i", "U+0307">>
                 ELSE <<to_lowercase_char(s[i])>>],
             <<>>)

\* impl Default for SchemaDefinition
DefaultSchemaDefinition ==
    [schema_type |-> "Any", format |-> <<>>, description |-> <<>>, items |-> <<>>,
     properties |-> EmptyMap, required |-> <<>>, ref_name |-> <<>>, enum_values |-> <<>>,
     example |-> <<>>, default |-> <<>>, nullable |-> FALSE,
     additional_properties |-> <<>>, one_of |-> <<>>, any_of |-> <<>>, all_of |-> <<>>]

\* The placeholder of a string schema, by its format.
StringPlaceholder(format) ==
    CASE format = << <<"uuid">> >> -> <<"550e8400-e29b-41d4-a716-446655440000">>
      [] format = << <<"date-time">> >> -> <<"2024-01-15T09:30:00Z">>
      [] format = << <<"date">> >> -> <<"2024-01-15">>
      [] format \in {<< <<"uri">> >>, << <<"url">> >>} -> <<"https://example.com">>
      [] format = << <<"email">> >> -> <<"user@example.com">>
      [] OTHER -> <<"string">>

\* A variant that looks at the explicit example before the depth.
RECURSIVE generate_example_json_example_first(_, _)
generate_example_json_example_first(self, depth) ==
    IF self.example # <<>>
    THEN UnwrapOr(serde_json_from_str(self.example[1]), JStr(self.example[1]))
    ELSE IF depth > 5 THEN JObj(EmptyMap)
    ELSE CASE self.schema_type = "String" ->
                IF self.enum_values # <<>> THEN JStr(self.enum_values[1])
                ELSE JStr(StringPlaceholder(self.format))
           [] self.schema_type = "Integer" ->
                IF self.default # <<>> /\ parse_i64(self.default[1]) # <<>>
                THEN JInt(parse_i64(self.default[1])[1])
                ELSE JInt(0)
           [] self.schema_type = "Number" -> JFloat(0)
           [] self.schema_type = "Boolean" -> JBool(TRUE)
           [] self.schema_type = "Array" ->
                IF self.items # <<>>
                THEN JArr(<<generate_example_json_example_first(self.items[1], depth + 1)>>)
                ELSE JArr(<<>>)
           [] self.schema_type = "Object" ->
                JObj([name \in DOMAIN self.properties |->
                         generate_example_json_example_first(self.properties[name], depth + 1)])
           [] self.schema_type = "Null" -> JNull
           [] self.schema_type = "Any" -> JStr(<<"any">>)

\* SchemaDefinition::generate_example_json
RECURSIVE generate_example_json(_, _)
generate_example_json(self, depth) ==
    IF depth > 5 THEN JObj(EmptyMap)
    ELSE IF self.example # <<>>
    THEN UnwrapOr(serde_json_from_str(self.example[1]), JStr(self.example[1]))
    ELSE CASE self.schema_type = "String" ->
                IF self.enum_values # <<>> THEN JStr(self.enum_values[1])
                ELSE JStr(StringPlaceholder(self.format))
           [] self.schema_type = "Integer" ->
                IF self.default # <<>> /\ parse_i64(self.default[1]) # <<>>
                THEN JInt(parse_i64(self.default[1])[1])
                ELSE JInt(0)
           [] self.schema_type = "Number" -> JFloat(0)
           [] self.schema_type = "Boolean" -> JBool(TRUE)
           [] self.schema_type = "Array" ->
                IF self.items # <<>>
                THEN JArr(<<generate_example_json(self.items[1], depth + 1)>>)
                ELSE JArr(<<>>)
           [] self.schema_type = "Object" ->
                JObj([name \in DOMAIN self.properties |->
                         generate_example_json(self.properties[name], depth + 1)])
           [] self.schema_type = "Null" -> JNull
           [] self.schema_type = "Any" -> JStr(<<"any">>)

\* str::replace, str::trim_start_matches, str::trim_end_matches and
\* str::trim_matches for a one-atom pattern.
RECURSIVE Replace(_, _, _)
Replace(s, from, to) ==
    IF s = <<>> THEN <<>>
    ELSE IF StartsWith(s, from) THEN to \o Replace(Drop(s, Len(from)), from, to)
    ELSE <<Head(s)>> \o Replace(Tail(s), from, to)

RECURSIVE TrimStartMatches(_, _)
TrimStartMatches(s, ch) ==
    IF s # <<>> /\ Head(s) = ch THEN TrimStartMatches(Tail(s), ch) ELSE s

RECURSIVE TrimEndMatches(_, _)
TrimEndMatches(s, ch) ==
    IF s # <<>> /\ s[Len(s)] = ch THEN TrimEndMatches(Take(s, Len(s) - 1), ch) ELSE s

TrimMatches(s, ch) == TrimEndMatches(TrimStartMatches(s, ch), ch)

\* A variant that puts the '-' before the first character too.
slugify_operation_id_every(id) ==
    JoinWith([i \in 1..Len(id) |->
                 (IF is_uppercase(id[i]) THEN <<"-">> ELSE <<>>) \o <<to_lowercase_char(id[i])>>],
             <<>>)

\* slugify_operation_id; i of the source is i - 1 here.
slugify_operation_id(id) ==
    JoinWith([i \in 1..Len(id) |->
                 (IF is_uppercase(id[i]) /\ i - 1 > 0 THEN <<"-">> ELSE <<>>)
                 \o <<to_lowercase_char(id[i])>>],
             <<>>)

\* ApiOperation::slug
slug(self) ==
    IF self.operation_id # <<>> THEN slugify_operation_id(self.operation_id[1])
    ELSE to_lowercase(MethodStr[self.method]) \o <<"-">>
         \o Replace(Replace(Replace(TrimMatches(self.path, "/"), <<"/">>, <<"-">>),
                            <<"{">>, <<>>), <<"}">>, <<>>)

\* A variant of the placeholder without its braces.
PlaceholderBare(name) == name

\* format!("{{{}}}", param.name)
Placeholder(name) == <<"{">> \o name \o <<"}">>

\* val.as_str().map(..).unwrap_or_else(|| val.to_string()) of the example
ExampleText(schema) ==
    Bind(generate_example_json(schema, 0), LAMBDA val :
        IF val.t = "string" THEN val.v ELSE to_string(val))

\* The loop of generate_curl over the parameters: [url, query_parts].
RECURSIVE curl_parameters(_, _, _)
curl_parameters(parameters, url, query_parts) ==
    IF parameters = <<>> THEN [url |-> url, query_parts |-> query_parts]
    ELSE Bind(Head(parameters), LAMBDA param :
            CASE param.location = "Path" ->
                    curl_parameters(Tail(parameters),
                                    Replace(url, Placeholder(param.name),
                                            IF param.schema # <<>>
                                            THEN ExampleText(param.schema[1])
                                            ELSE Placeholder(param.name)),
                                    query_parts)
              [] param.location = "Query" ->
                    curl_parameters(Tail(parameters), url,
                                    IF param.schema # <<>>
                                    THEN Append(query_parts,
                                                param.name \o <<"=">>
                                                \o ExampleText(param.schema[1]))
                                    ELSE query_parts)
              [] OTHER -> curl_parameters(Tail(parameters), url, query_parts))

\* The loop of generate_curl over the contents of the request body: the
\* first JSON content ends it.
RECURSIVE curl_body(_)
curl_body(content) ==
    IF content = <<>> THEN <<>>
    ELSE IF Contains(Head(content).media_type, <<"json">>)
    THEN IF Head(content).schema # <<>>
         THEN << <<"-d", " ", "'">>
                 \o to_string_pretty(generate_example_json(Head(content).schema[1], 0))
                 \o <<"'">> >>
         ELSE <<>>
    ELSE curl_body(Tail(content))

\* ApiOperation::generate_curl
generate_curl(self, base_url) ==
    Bind(curl_parameters(self.parameters, TrimEndMatches(base_url, "/") \o self.path, <<>>),
         LAMBDA r :
        JoinWith(<< <<"curl">> >>
                 \o (IF self.method # "Get"
                     THEN << <<"-X", " ">> \o MethodStr[self.method] >> ELSE <<>>)
                 \o << <<"\"">>
                       \o (IF r.query_parts # <<>>
                           THEN r.url \o <<"?">> \o JoinWith(r.query_parts, <<"&">>)
                           ELSE r.url)
                       \o <<"\"">> >>
                 \o (IF self.request_body # <<>>
                     THEN << <<"-H", " ", "\"", "Content-Type: application/json", "\"">> >>
                     ELSE <<>>)
                 \o (IF self.request_body # <<>>
                     THEN curl_body(self.request_body[1].content) ELSE <<>>),
                 <<" \\\n  ">>))

\* The inner loop of generate_response_example: the first content that has
\* a schema.
RECURSIVE first_schema(_)
first_schema(content) ==
    IF content = <<>> THEN <<>>
    ELSE IF Head(content).schema # <<>> THEN Head(content).schema
    ELSE first_schema(Tail(content))

\* A variant that does not look at the status code.
RECURSIVE generate_response_example_any_status(_)
generate_response_example_any_status(responses) ==
    IF responses = <<>> THEN <<>>
    ELSE IF first_schema(Head(responses).content) # <<>>
    THEN << <<Head(responses).status_code,
              to_string_pretty(generate_example_json(first_schema(Head(responses).content)[1], 0))>> >>
    ELSE generate_response_example_any_status(Tail(responses))

\* ApiOperation::generate_response_example, on self.responses
RECURSIVE generate_response_example(_)
generate_response_example(responses) ==
    IF responses = <<>> THEN <<>>
    ELSE IF StartsWith(Head(responses).status_code, <<"2">>)
            /\ first_schema(Head(responses).content) # <<>>
    THEN << <<Head(responses).status_code,
              to_string_pretty(generate_example_json(first_schema(Head(responses).content)[1], 0))>> >>
    ELSE generate_response_example(Tail(responses))

(***************************************************************************)
(* openapi_parser.rs.  A ReferenceOr<T> is [kind |-> "item", item] or      *)
(* [kind |-> "ref", reference].  A call returns a value or never returns:  *)
(* a recursion that comes back to a call it is still evaluating, with the  *)
(* same arguments, goes on until the stack overflows (st = "overflow").    *)
(* The names in `active` are the component schemas whose transform_schema  *)
(* call is still being evaluated.                                          *)
(***************************************************************************)
Overflows == [st |-> "overflow", val |-> <<>>]

\* The rest of a computation that goes on only if the call before returned.
Then(r, F(_)) == IF r.st = "ok" THEN F(r.val) ELSE r

\* The values of a collection of calls, if all of them return.
Collect(rs) ==
    IF \A k \in DOMAIN rs : rs[k].st = "ok" THEN Ok([k \in DOMAIN rs |-> rs[k].val])
    ELSE Overflows

Item(x) == [kind |-> "item", item |-> x]
Reference(reference) == [kind |-> "ref", reference |-> reference]

SchemasPrefix == <<"#/components/schemas/">>
ParametersPrefix == <<"#/components/parameters/">>
RequestBodiesPrefix == <<"#/components/requestBodies/">>
ResponsesPrefix == <<"#/components/responses/">>

\* str::strip_prefix
strip_prefix(s, prefix) == IF StartsWith(s, prefix) THEN <<Drop(s, Len(prefix))>> ELSE <<>>

\* The lookup of a reference in one map of spec.components: the item it
\* names, if the prefix matches, the name is there and it is no reference.
ResolveIn(reference, prefix, spec, field) ==
    Bind(strip_prefix(reference, prefix), LAMBDA name :
        IF name # <<>> /\ spec.components # <<>>
           /\ name[1] \in DOMAIN spec.components[1][field]
           /\ spec.components[1][field][name[1]].kind = "item"
        THEN <<spec.components[1][field][name[1]].item>>
        ELSE <<>>)

format_json_value(value) ==
    IF value.t = "string" THEN value.v ELSE to_string_pretty(value)

MapOption(opt, F(_)) == IF opt = <<>> THEN <<>> ELSE <<F(opt[1])>>

extract_format(format) ==
    CASE format.kind = "Item" -> << <<to_lowercase_char(format.debug)>> >>
      [] format.kind = "Unknown" -> <<format.s>>
      [] format.kind = "Empty" -> <<>>

\* iter().filter_map(|v| v.clone()).collect()
RECURSIVE FilterSome(_)
FilterSome(opts) ==
    IF opts = <<>> THEN <<>>
    ELSE Head(opts) \o FilterSome(Tail(opts))

\* def after the four assignments from schema.schema_data
SchemaDataOf(schema) ==
    [DefaultSchemaDefinition EXCEPT
        !.description = schema.schema_data.description,
        !.example = MapOption(schema.schema_data.example, format_json_value),
        !.default = MapOption(schema.schema_data.default, format_json_value),
        !.nullable = schema.schema_data.nullable]

RECURSIVE transform_schema(_, _, _)
RECURSIVE resolve_and_transform_schema(_, _, _)
RECURSIVE resolve_and_transform_boxed_schema(_, _, _)

\* transform_schema
transform_schema(schema, spec, active) ==
    Bind(SchemaDataOf(schema), LAMBDA def :
    Bind(schema.schema_kind, LAMBDA t :
        CASE t.kind = "String" ->
                Ok([def EXCEPT !.schema_type = "String", !.format = extract_format(t.format),
                               !.enum_values = FilterSome(t.enumeration)])
          [] t.kind = "Number" ->
                Ok([def EXCEPT !.schema_type = "Number", !.format = extract_format(t.format)])
          [] t.kind = "Integer" ->
                Ok([def EXCEPT !.schema_type = "Integer", !.format = extract_format(t.format)])
          [] t.kind = "Boolean" -> Ok([def EXCEPT !.schema_type = "Boolean"])
          [] t.kind = "Array" ->
                IF t.items = <<>> THEN Ok([def EXCEPT !.schema_type = "Array"])
                ELSE Then(resolve_and_transform_boxed_schema(t.items[1], spec, active),
                          LAMBDA items :
                         Ok([def EXCEPT !.schema_type = "Array", !.items = <<items>>]))
          [] t.kind = "Object" ->
                Then(Collect([name \in DOMAIN t.properties |->
                                 resolve_and_transform_boxed_schema(t.properties[name], spec,
                                                                    active)]),
                     LAMBDA properties :
                Bind([def EXCEPT !.schema_type = "Object", !.required = t.required,
                                 !.properties = properties], LAMBDA obj :
                    IF t.additional_properties = <<>> THEN Ok(obj)
                    ELSE IF t.additional_properties[1].kind = "Any"
                    THEN IF t.additional_properties[1].any
                         THEN Ok([obj EXCEPT !.additional_properties = <<DefaultSchemaDefinition>>])
                         ELSE Ok(obj)
                    ELSE Then(resolve_and_transform_schema(t.additional_properties[1].schema,
                                                           spec, active), LAMBDA ap :
                             Ok([obj EXCEPT !.additional_properties = <<ap>>]))))
          [] t.kind = "OneOf" ->
                Then(Collect([i \in 1..Len(t.of) |->
                                 resolve_and_transform_schema(t.of[i], spec, active)]),
                     LAMBDA one_of : Ok([def EXCEPT !.one_of = one_of]))
          [] t.kind = "AnyOf" ->
                Then(Collect([i \in 1..Len(t.of) |->
                                 resolve_and_transform_schema(t.of[i], spec, active)]),
                     LAMBDA any_of : Ok([def EXCEPT !.any_of = any_of]))
          [] t.kind = "AllOf" ->
                Then(Collect([i \in 1..Len(t.of) |->
                                 resolve_and_transform_schema(t.of[i], spec, active)]),
                     LAMBDA all_of : Ok([def EXCEPT !.all_of = all_of]))
          [] t.kind \in {"Not", "Any"} -> Ok(def)))

\* resolve_and_transform_schema
resolve_and_transform_schema(schema_ref, spec, active) ==
    IF schema_ref.kind = "item" THEN transform_schema(schema_ref.item, spec, active)
    ELSE Bind(strip_prefix(schema_ref.reference, SchemasPrefix), LAMBDA ref_name :
         Bind(ResolveIn(schema_ref.reference, SchemasPrefix, spec, "schemas"), LAMBDA resolved :
            IF resolved # <<>>
            THEN IF ref_name[1] \in active THEN Overflows
                 ELSE Then(transform_schema(resolved[1], spec, active \cup {ref_name[1]}),
                           LAMBDA def : Ok([def EXCEPT !.ref_name = ref_name]))
            ELSE Ok([DefaultSchemaDefinition EXCEPT !.ref_name = ref_name])))

\* resolve_and_transform_boxed_schema: the same code on a ReferenceOr<Box<Schema>>
resolve_and_transform_boxed_schema(schema_ref, spec, active) ==
    resolve_and_transform_schema(schema_ref, spec, active)

\* The map over the contents of a request body or a response.
transform_content(content, spec) ==
    Collect([i \in 1..Len(content) |->
                IF content[i].media.schema = <<>>
                THEN Ok([media_type |-> content[i].media_type, schema |-> <<>>,
                         example |-> MapOption(content[i].media.example, format_json_value)])
                ELSE Then(resolve_and_transform_schema(content[i].media.schema[1], spec, {}),
                          LAMBDA schema :
                         Ok([media_type |-> content[i].media_type, schema |-> <<schema>>,
                             example |-> MapOption(content[i].media.example,
                                                   format_json_value)]))])

\* resolve_parameter
resolve_parameter(param_ref, spec) ==
    IF param_ref.kind = "item" THEN <<param_ref.item>>
    ELSE ResolveIn(param_ref.reference, ParametersPrefix, spec, "parameters")

\* transform_parameter: an Option<ApiParameter>
transform_parameter(param_ref, spec) ==
    Bind(resolve_parameter(param_ref, spec), LAMBDA param :
        IF param = <<>> THEN Ok(<<>>)
        ELSE IF param[1].data.format.kind # "Schema" THEN Ok(<<>>)
        ELSE Then(resolve_and_transform_schema(param[1].data.format.schema, spec, {}),
                  LAMBDA schema :
                 Ok(<<[name |-> param[1].data.name, location |-> param[1].kind,
                       description |-> param[1].data.description,
                       required |-> param[1].data.required,
                       deprecated |-> UnwrapOr(param[1].data.deprecated, FALSE),
                       schema |-> <<schema>>,
                       example |-> MapOption(param[1].data.example, format_json_value)]>>)))

\* resolve_request_body
resolve_request_body(rb_ref, spec) ==
    IF rb_ref.kind = "item" THEN <<rb_ref.item>>
    ELSE ResolveIn(rb_ref.reference, RequestBodiesPrefix, spec, "request_bodies")

\* transform_request_body: an Option<ApiRequestBody>
transform_request_body(rb_ref, spec) ==
    Bind(resolve_request_body(rb_ref, spec), LAMBDA rb :
        IF rb = <<>> THEN Ok(<<>>)
        ELSE Then(transform_content(rb[1].content, spec), LAMBDA content :
                 Ok(<<[description |-> rb[1].description, required |-> rb[1].required,
                       content |-> content]>>)))

\* resolve_response
resolve_response(resp_ref, spec) ==
    IF resp_ref.kind = "item" THEN <<resp_ref.item>>
    ELSE ResolveIn(resp_ref.reference, ResponsesPrefix, spec, "responses")

\* transform_response
transform_response(status_code, resp_ref, spec) ==
    Bind(IF status_code.kind = "Code" THEN status_code.code
         ELSE status_code.range \o <<"XX">>, LAMBDA status_str :
    Bind(resolve_response(resp_ref, spec), LAMBDA resp :
        IF resp = <<>>
        THEN Ok([status_code |-> status_str, description |-> <<>>, content |-> <<>>])
        ELSE Then(transform_content(resp[1].content, spec), LAMBDA content :
                 Ok([status_code |-> status_str, description |-> resp[1].description,
                     content |-> content]))))

\* The loop of transform_operation over op.parameters.
RECURSIVE merge_parameters(_, _, _)
merge_parameters(op_parameters, spec, parameters) ==
    IF op_parameters = <<>> THEN Ok(parameters)
    ELSE Then(transform_parameter(Head(op_parameters), spec), LAMBDA p :
             IF p # <<>> /\ ~\E i \in 1..Len(parameters) : parameters[i].name = p[1].name
             THEN merge_parameters(Tail(op_parameters), spec, Append(parameters, p[1]))
             ELSE merge_parameters(Tail(op_parameters), spec, parameters))

\* transform_operation
transform_operation(path, method, operation, path_params, spec) ==
    Then(Collect([i \in 1..Len(path_params) |-> transform_parameter(path_params[i], spec)]),
         LAMBDA from_path :
    Then(merge_parameters(operation.parameters, spec, FilterSome(from_path)), LAMBDA parameters :
    Then(IF operation.request_body = <<>> THEN Ok(<<>>)
         ELSE transform_request_body(operation.request_body[1], spec), LAMBDA request_body :
    Then(Collect([i \in 1..Len(operation.responses) |->
                     transform_response(operation.responses[i].code, operation.responses[i].resp, spec)]),
         LAMBDA responses :
        Ok([operation_id |-> operation.operation_id, method |-> method, path |-> path,
            summary |-> operation.summary, description |-> operation.description, tags |-> operation.tags,
            parameters |-> parameters, request_body |-> request_body,
            responses |-> responses, deprecated |-> operation.deprecated])))))

\* The order of the methods array of extract_operations.
Methods == <<"Get", "Post", "Put", "Delete", "Patch", "Head", "Options">>

\* extract_operations: the operations of one path item
extract_operations(path, item, spec) ==
    Then(Collect([i \in 1..Len(Methods) |->
                     IF item.ops[Methods[i]] = <<>> THEN Ok(<<>>)
                     ELSE Then(transform_operation(path, Methods[i], item.ops[Methods[i]][1],
                                                   item.parameters, spec),
                               LAMBDA operation : Ok(<<operation>>))]),
         LAMBDA operations : Ok(FilterSome(operations)))

\* transform_spec
transform_spec(spec) ==
    Then(Collect([i \in 1..Len(spec.paths) |->
                     IF spec.paths[i].item.kind = "item"
                     THEN extract_operations(spec.paths[i].path, spec.paths[i].item.item, spec)
                     ELSE Ok(<<>>)]),
         LAMBDA operations :
    Then(IF spec.components = <<>> THEN Ok(EmptyMap)
         ELSE Collect([name \in {n \in DOMAIN spec.components[1].schemas :
                                    spec.components[1].schemas[n].kind = "item"} |->
                          transform_schema(spec.components[1].schemas[name].item, spec, {})]),
         LAMBDA schemas :
        Ok([info |-> spec.info, servers |-> spec.servers,
            operations |-> JoinWith(operations, <<>>), tags |-> spec.tags,
            schemas |-> schemas])))

\* serde_yaml::from_str and serde_json::from_str into an OpenAPI: a content
\* of the model carries what each of them reads it as (<<>>: an error).
serde_yaml_from_str_openapi(content) == content.yaml

serde_json_from_str_openapi(content) == content.json

\* parse_openapi: Ok(spec) or Err(ParseError)
parse_openapi(content) ==
    IF serde_yaml_from_str_openapi(content) # <<>>
    THEN Then(transform_spec(serde_yaml_from_str_openapi(content)[1]), LAMBDA spec :
             Ok([ok |-> TRUE, spec |-> spec]))
    ELSE IF serde_json_from_str_openapi(content) # <<>>
    THEN Then(transform_spec(serde_json_from_str_openapi(content)[1]), LAMBDA spec :
             Ok([ok |-> TRUE, spec |-> spec]))
    ELSE Ok([ok |-> FALSE, err |-> "ParseError"])

(***************************************************************************)
(* content.rs: parse_mdx and get_raw_markdown; mod.rs: parse_document      *)
(***************************************************************************)
\* The end of the match of (?m)^import\s+.*?;\s*\n? that starts at offset
\* i, or None: the atom "import" at the start of a line, whitespace, a ';'
\* before the line that follows the whitespace ends, and the whitespace
\* after it.
ImportEnd(s, i) ==
    IF /\ AtomAt(s, i) = "import"
       /\ (i = 0 \/ s[i] = "\n")
       /\ AtomAt(s, i + 1) \in WsAtoms
       /\ FindFrom(s, <<";">>, SkipWs(s, i + 1)) # None
       /\ FindFrom(s, <<";">>, SkipWs(s, i + 1)) <= LineEnd(s, SkipWs(s, i + 1))
    THEN SkipWs(s, FindFrom(s, <<";">>, SkipWs(s, i + 1)) + 1)
    ELSE None

\* import_re.replace_all(content, "") from offset pos on
RECURSIVE strip_imports_from(_, _)
strip_imports_from(content, pos) ==
    Bind({i \in pos..Len(content) : ImportEnd(content, i) # None}, LAMBDA starts :
        IF starts = {} THEN Drop(content, pos)
        ELSE Slice(content, pos, Min(starts))
             \o strip_imports_from(content, ImportEnd(content, Min(starts))))

\* strip_imports
strip_imports(content) == strip_imports_from(content, 0)

WidgetName == <<"SeggWatIsPageHelpful">>

\* The end of the match of <SeggWatIsPageHelpful\s*/?> at offset i, or None.
WidgetEnd(s, i) ==
    Bind(SkipWs(s, i + Len(OpenTag(WidgetName))), LAMBDA w :
        IF ~MatchesAt(s, OpenTag(WidgetName), i) THEN None
        ELSE IF AtomAt(s, w) = ">" THEN w + 1
        ELSE IF AtomAt(s, w) = "/" /\ AtomAt(s, w + 1) = ">" THEN w + 2
        ELSE None)

RECURSIVE strip_helpful_widget_from(_, _)
strip_helpful_widget_from(content, pos) ==
    Bind({i \in pos..Len(content) : WidgetEnd(content, i) # None}, LAMBDA starts :
        IF starts = {} THEN Drop(content, pos)
        ELSE Slice(content, pos, Min(starts))
             \o strip_helpful_widget_from(content, WidgetEnd(content, Min(starts))))

\* strip_helpful_widget
strip_helpful_widget(content) == strip_helpful_widget_from(content, 0)

\* parse_mdx
parse_mdx(content) ==
    parse_content(strip_helpful_widget(strip_imports(extract_frontmatter(content).rest)))

\* The OpenApiSpec of an <OpenAPI> node of the model: what the text
\* "{openapi}" is parsed to, a document titled T without operations.
InlineSpec ==
    [info |-> [title |-> <<"T">>, version |-> <<"1">>, description |-> <<>>],
     servers |-> <<>>, operations |-> <<>>, tags |-> <<>>, schemas |-> EmptyMap]

\* format!("'''{}\n{}\n'''\n\n", lang, code); a backtick is written ' in the atoms
\* of the model, as in Fence
FencedBlock(block) ==
    Fence \o UnwrapOr(block.language, <<>>) \o <<"\n">> \o block.code
    \o <<"\n">> \o Fence \o <<"\n", "\n">>

RequiredMark(required) == IF required THEN <<" *(required)*">> ELSE <<>>

\* "- '{}' _{}_: {}\n" of a field of an expandable, after the indent
FieldLine(indent, field) ==
    indent \o <<"- '", field.name, "' _", field.field_type, "_: ">> \o field.content \o <<"\n">>

\* get_raw_markdown
RECURSIVE get_raw_markdown(_)
node_raw_markdown(node) ==
    CASE node.kind = "Markdown" -> node.text \o <<"\n", "\n">>
      [] node.kind = "Callout" ->
            <<"> **", node.callout_type, ":** ">> \o node.content \o <<"\n", "\n">>
      [] node.kind = "CardGroup" ->
            JoinWith([i \in 1..Len(node.cards) |->
                         <<"**", node.cards[i].title, "**", "\n">> \o node.cards[i].content
                         \o <<"\n", "\n">>], <<>>)
      [] node.kind = "Tabs" ->
            JoinWith([i \in 1..Len(node.tabs) |->
                         <<"####", " ", node.tabs[i].title, "\n">>
                         \o get_raw_markdown(node.tabs[i].content)], <<>>)
      [] node.kind = "Steps" ->
            JoinWith([i \in 1..Len(node.steps) |->
                         <<ToString(i), ". **">> \o node.steps[i].title \o <<"**", "\n">>
                         \o get_raw_markdown(node.steps[i].content)], <<>>)
      [] node.kind = "AccordionGroup" ->
            JoinWith([i \in 1..Len(node.items) |->
                         <<"###", " ", node.items[i].title, "\n">>
                         \o get_raw_markdown(node.items[i].content)], <<>>)
      [] node.kind = "CodeBlock" -> FencedBlock(node)
      [] node.kind = "CodeGroup" ->
            JoinWith([i \in 1..Len(node.blocks) |-> FencedBlock(node.blocks[i])], <<>>)
      [] node.kind = "ParamField" ->
            <<"**'", node.name, "'** _", node.param_type, "_">>
            \o RequiredMark(node.required) \o <<": ">> \o get_raw_markdown(node.content)
      [] node.kind = "ResponseField" ->
            <<"**'", node.name, "'** _", node.field_type, "_">>
            \o RequiredMark(node.required) \o <<": ">> \o node.content \o <<"\n", "\n">>
            \o (IF node.expandable = <<>> THEN <<>>
                ELSE <<"  **", node.expandable[1].title, "**", "\n">>
                     \o JoinWith([i \in 1..Len(node.expandable[1].fields) |->
                                     FieldLine(<<"  ">>, node.expandable[1].fields[i])], <<>>)
                     \o <<"\n">>)
      [] node.kind = "Expandable" ->
            <<"**", node.title, "**", "\n", "\n">>
            \o JoinWith([i \in 1..Len(node.fields) |-> FieldLine(<<>>, node.fields[i])], <<>>)
            \o <<"\n">>
      [] node.kind = "RequestExample" ->
            <<"**Request:**", "\n", "\n">>
            \o JoinWith([i \in 1..Len(node.blocks) |-> FencedBlock(node.blocks[i])], <<>>)
      [] node.kind = "ResponseExample" ->
            <<"**Response:**", "\n", "\n">>
            \o JoinWith([i \in 1..Len(node.blocks) |-> FencedBlock(node.blocks[i])], <<>>)
      [] node.kind = "Update" ->
            <<"###", " ", node.label, "\n", "\n">> \o get_raw_markdown(node.content)
      [] node.kind = "OpenApi" ->
            <<"#", " ">> \o InlineSpec.info.title \o <<"\n", "\n">>
            \o (IF InlineSpec.info.description = <<>> THEN <<>>
                ELSE InlineSpec.info.description[1] \o <<"\n", "\n">>)
            \o JoinWith([i \in 1..Len(InlineSpec.operations) |->
                            <<"##", " ">> \o MethodStr[InlineSpec.operations[i].method] \o <<" ">>
                            \o InlineSpec.operations[i].path \o <<"\n", "\n">>
                            \o (IF InlineSpec.operations[i].summary = <<>> THEN <<>>
                                ELSE InlineSpec.operations[i].summary[1] \o <<"\n", "\n">>)],
                        <<>>)

get_raw_markdown(nodes) ==
    JoinWith([i \in 1..Len(nodes) |-> node_raw_markdown(nodes[i])], <<>>)

\* parse_document
parse_document(content) ==
    Then(parse_mdx(extract_frontmatter(content).rest), LAMBDA nodes :
        Ok([frontmatter |-> extract_frontmatter(content).fm, content |-> nodes,
            raw_markdown |-> get_raw_markdown(nodes)]))

(***************************************************************************)
(* registry.rs.  A DocsConfig is a record of what its accessors return:    *)
(* nav_json as serde_json reads it (<<>>: an error), content_map as a      *)
(* function from page paths to texts, openapi_specs as a sequence of       *)
(* [prefix, yaml].                                                         *)
(***************************************************************************)
\* page.split('/').last().unwrap_or(page)
RECURSIVE LastSegment(_)
LastSegment(page) ==
    IF Contains(page, <<"/">>) THEN LastSegment(Drop(page, Find(page, <<"/">>) + 1)) ELSE page

\* s.chars().take(n).collect()
TakeChars(s, n) == IF Len(s) <= n THEN s ELSE Take(s, n)

\* The entries of build_search_index for the pages of the nav groups.
page_entries(nav, parsed_docs) ==
    JoinWith([g \in 1..Len(nav.groups) |->
        JoinWith([p \in 1..Len(nav.groups[g].pages) |->
            Bind(nav.groups[g].pages[p], LAMBDA page :
                IF page \notin DOMAIN parsed_docs THEN <<>>
                ELSE <<[path |-> page,
                        title |-> IF parsed_docs[page].frontmatter.title = ""
                                  THEN Replace(LastSegment(page), <<"-">>, <<" ">>)
                                  ELSE <<parsed_docs[page].frontmatter.title>>,
                        description |-> UnwrapOr(parsed_docs[page].frontmatter.description, <<>>),
                        content_preview |-> TakeChars(parsed_docs[page].raw_markdown, 200),
                        breadcrumb |-> nav.groups[g].group,
                        api_method |-> <<>>]>>)], <<>>)], <<>>)

\* The entries of build_search_index for the operations of the specs.
operation_entries(openapi_specs) ==
    JoinWith([s \in 1..Len(openapi_specs) |->
        [o \in 1..Len(openapi_specs[s].spec.operations) |->
            Bind(openapi_specs[s].spec.operations[o], LAMBDA operation :
                [path |-> openapi_specs[s].prefix \o <<"/">> \o slug(operation),
                 title |-> IF operation.summary # <<>> THEN operation.summary[1]
                           ELSE Replace(slug(operation), <<"-">>, <<" ">>),
                 description |-> UnwrapOr(operation.description, <<>>),
                 content_preview |-> UnwrapOr(operation.description, <<>>),
                 breadcrumb |-> <<"API Reference > ">>
                                \o (IF operation.tags # <<>> THEN operation.tags[1]
                                    ELSE <<"Other">>),
                 api_method |-> <<operation.method>>])]], <<>>)

\* DocsRegistry::build_search_index
build_search_index(nav, parsed_docs, openapi_specs, api_group_name) ==
    page_entries(nav, parsed_docs) \o operation_entries(openapi_specs)

\* The map of from_config over config.openapi_specs(), in order:
\* parse_openapi(yaml).expect(..) panics on the first Err.
RECURSIVE parse_specs(_, _)
parse_specs(openapi_specs, parsed) ==
    IF openapi_specs = <<>> THEN Ok(parsed)
    ELSE Then(parse_openapi(Head(openapi_specs).yaml), LAMBDA result :
             IF ~result.ok THEN Panics
             ELSE parse_specs(Tail(openapi_specs),
                              Append(parsed, [prefix |-> Head(openapi_specs).prefix,
                                              spec |-> result.spec])))

\* The outcomes of the documents of content_map that do not return.
DocFailures(content_map) ==
    {[st |-> parse_document(content_map[path]).st, val |-> <<>>] :
        path \in {p \in DOMAIN content_map : parse_document(content_map[p]).st # "ok"}}

\* DocsRegistry::from_config: the set of its possible outcomes.  The map over
\* content_map() follows the iteration order of a HashMap, so with several
\* documents that do not return any of them can be the one that is reached.
from_config(config) ==
    IF config.nav_json = <<>> THEN {Panics}
    ELSE IF DocFailures(config.content_map) # {} THEN DocFailures(config.content_map)
    ELSE Bind(config.nav_json[1], LAMBDA nav :
         Bind([path \in DOMAIN config.content_map |->
                  parse_document(config.content_map[path]).val], LAMBDA parsed_docs :
         Bind(IF config.api_group_name # <<>> THEN config.api_group_name[1]
              ELSE <<"API Reference">>, LAMBDA api_group_name :
            {Then(parse_specs(config.openapi_specs, <<>>), LAMBDA openapi_specs :
                Ok([nav |-> nav,
                    parsed_docs |-> parsed_docs,
                    search_index |-> build_search_index(nav, parsed_docs, openapi_specs,
                                                        api_group_name),
                    openapi_specs |-> openapi_specs,
                    default_path |->
                        IF config.default_path # <<>> THEN config.default_path[1]
                        ELSE IF nav.groups # <<>> /\ nav.groups[1].pages # <<>>
                        THEN nav.groups[1].pages[1]
                        ELSE <<>>,
                    api_group_name |-> api_group_name,
                    theme |-> config.theme]))})))

\* The registry that from_config builds from a nav, parsed documents and parsed specs.
RegistryOf(nav, parsed_docs, openapi_specs) ==
    [nav |-> nav,
     parsed_docs |-> parsed_docs,
     search_index |-> build_search_index(nav, parsed_docs, openapi_specs, <<"API Reference">>),
     openapi_specs |-> openapi_specs,
     default_path |-> <<>>,
     api_group_name |-> <<"API Reference">>,
     theme |-> <<>>]

\* The arm of the loop of search_docs that takes the entry: "title", "desc", "content" or
\* "none".
search_arm(entry, q) ==
    IF Contains(to_lowercase(entry.title), q) THEN "title"
    ELSE IF Contains(to_lowercase(entry.description), q) THEN "desc"
    ELSE IF Contains(to_lowercase(entry.content_preview), q) THEN "content"
    ELSE "none"

\* search_docs without query.trim()
search_docs_untrimmed(self, query) ==
    IF query = <<>> THEN <<>>
    ELSE Bind(to_lowercase(query), LAMBDA q :
            SelectSeq(self.search_index, LAMBDA entry : search_arm(entry, q) = "title")
            \o SelectSeq(self.search_index, LAMBDA entry : search_arm(entry, q) = "desc")
            \o SelectSeq(self.search_index, LAMBDA entry : search_arm(entry, q) = "content"))

\* DocsRegistry::search_docs
search_docs(self, query) ==
    IF Trim(query) = <<>> THEN <<>>
    ELSE Bind(to_lowercase(Trim(query)), LAMBDA q :
            SelectSeq(self.search_index, LAMBDA entry : search_arm(entry, q) = "title")
            \o SelectSeq(self.search_index, LAMBDA entry : search_arm(entry, q) = "desc")
            \o SelectSeq(self.search_index, LAMBDA entry : search_arm(entry, q) = "content"))

(***************************************************************************)
(* toc.rs: slugify and extract_headers                                     *)
(***************************************************************************)
Digits == {"0", "1", "2", "3", "4", "5", "6", "7", "8", "9"}

\* char::is_alphanumeric and char::is_whitespace on the atoms of the model
is_alphanumeric(c) == c \in Cased \cup Digits

is_whitespace(c) == c \in WsAtoms

\* str::split(ch): the pieces between the occurrences of ch, empty ones included
RECURSIVE Split(_, _)
Split(s, ch) ==
    Bind(Find(s, <<ch>>),
         LAMBDA i : IF i = None THEN <<s>> ELSE <<Take(s, i)>> \o Split(Drop(s, i + 1), ch))

NonEmpty(piece) == piece # <<>>

\* the closure given to filter_map, with '_' in place of None for the other characters
slugify_filter_map_underscore(c) ==
    IF is_alphanumeric(c) THEN <<c>>
    ELSE IF is_whitespace(c) \/ c = "-" \/ c = "_" \/ c = "." THEN <<"-">>
    ELSE <<"_">>

\* the closure given to filter_map: Some(c), Some('-') or None, as a sequence of 0 or 1 chars
slugify_filter_map(c) ==
    IF is_alphanumeric(c) THEN <<c>>
    ELSE IF is_whitespace(c) \/ c = "-" \/ c = "_" \/ c = "." THEN <<"-">>
    ELSE <<>>

slugify_collect(lower) ==
    JoinWith([i \in 1..Len(lower) |-> slugify_filter_map(lower[i])], <<>>)

\* slugify without .filter(|s| !s.is_empty())
slugify_keep_empty(text) ==
    JoinWith(Split(slugify_collect(to_lowercase(text)), "-"), <<"-">>)

slugify(text) ==
    JoinWith(SelectSeq(Split(slugify_collect(to_lowercase(text)), "-"), NonEmpty), <<"-">>)

\* The number of '#' of an atom that is a run of them, 0 for the other atoms.
HashLen(atom) ==
    CASE atom = "#" -> 1 [] atom = "##" -> 2 [] atom = "###" -> 3 [] atom = "####" -> 4
      [] OTHER -> 0

\* The end of the run of '#' that starts at offset i.
RECURSIVE HashRunEnd(_, _)
HashRunEnd(s, i) == IF i < Len(s) /\ HashLen(s[i + 1]) > 0 THEN HashRunEnd(s, i + 1) ELSE i

RECURSIVE HashCount(_, _, _)
HashCount(s, from, to) == IF from >= to THEN 0 ELSE HashLen(s[from + 1]) + HashCount(s, from + 1, to)

\* The title of the match of (.+)$ after \s+ that starts at offset j and can end at
\* offsets up to w: \s+ is greedy and gives whitespace back until (.+) finds a character
\* that is not a newline.
TitleStart(s, j, w) == {k \in (j + 1)..w : k < Len(s) /\ s[k + 1] # "\n"}

\* (?m)^(#{2,4})\s+(.+)$ at offset i: [start, end, level, title] of the match, or end = None.
HeaderAt(s, i) ==
    Bind(HashRunEnd(s, i), LAMBDA j :
        IF \/ ~(i = 0 \/ s[i] = "\n")
           \/ HashCount(s, i, j) \notin 2..4
           \/ TitleStart(s, j, SkipWs(s, j)) = {}
        THEN [start |-> i, end |-> None, level |-> 0, title |-> <<>>]
        ELSE Bind(CHOOSE c \in TitleStart(s, j, SkipWs(s, j)) :
                      \A d \in TitleStart(s, j, SkipWs(s, j)) : d <= c, LAMBDA k :
                [start |-> i, end |-> LineEnd(s, k), level |-> HashCount(s, i, j),
                 title |-> Slice(s, k, LineEnd(s, k))]))

\* heading_re.captures_iter(content) from offset pos on
RECURSIVE HeaderCaptures(_, _)
HeaderCaptures(content, pos) ==
    Bind({i \in pos..Len(content) : HeaderAt(content, i).end # None}, LAMBDA starts :
        IF starts = {} THEN <<>>
        ELSE <<HeaderAt(content, Min(starts))>>
             \o HeaderCaptures(content, HeaderAt(content, Min(starts)).end))

\* extract_headers without a level bound: every line of '#' is taken
extract_headers_any_level(content) ==
    Bind(HeaderCaptures(content, 0), LAMBDA caps :
        [i \in 1..Len(caps) |-> <<slugify(Trim(caps[i].title)), Trim(caps[i].title), 0>>])

\* extract_headers: (id, title, level) of each match
extract_headers(content) ==
    Bind(HeaderCaptures(content, 0), LAMBDA caps :
        [i \in 1..Len(caps) |->
            <<slugify(Trim(caps[i].title)), Trim(caps[i].title), caps[i].level>>])

(***************************************************************************)
(* registry.rs: the lookups of API operations; docs_page.rs and            *)
(* sidebar.rs: the page and the links that are rendered from them.         *)
(***************************************************************************)
\* path.strip_prefix(&format!("{prefix}/")), as <<slug>> or <<>>
StripPrefix(path, prefix) ==
    IF StartsWith(path, prefix \o <<"/">>) THEN <<Drop(path, Len(prefix) + 1)>> ELSE <<>>

\* spec.operations.iter().find(|op| op.slug() == slug), as <<op>> or <<>>
FindOperation(spec, wanted) ==
    Bind({o \in 1..Len(spec.operations) : slug(spec.operations[o]) = wanted}, LAMBDA found :
        IF found = {} THEN <<>> ELSE <<spec.operations[Min(found)]>>)

\* DocsRegistry::get_api_operation from the spec at index s on
RECURSIVE get_api_operation_from(_, _, _)
get_api_operation_from(self, path, s) ==
    IF s > Len(self.openapi_specs) THEN <<>>
    ELSE IF /\ StripPrefix(path, self.openapi_specs[s].prefix) # <<>>
            /\ FindOperation(self.openapi_specs[s].spec,
                             StripPrefix(path, self.openapi_specs[s].prefix)[1]) # <<>>
    THEN FindOperation(self.openapi_specs[s].spec,
                       StripPrefix(path, self.openapi_specs[s].prefix)[1])
    ELSE get_api_operation_from(self, path, s + 1)

\* DocsRegistry::get_api_operation
get_api_operation(self, path) == get_api_operation_from(self, path, 1)

\* DocsRegistry::get_first_api_spec and get_first_api_prefix, as <<v>> or <<>>
get_first_api_spec(self) ==
    IF self.openapi_specs = <<>> THEN <<>> ELSE <<self.openapi_specs[1].spec>>

get_first_api_prefix(self) ==
    IF self.openapi_specs = <<>> THEN <<>> ELSE <<self.openapi_specs[1].prefix>>

\* DocsRegistry::get_api_endpoint_paths
get_api_endpoint_paths(self) ==
    JoinWith([s \in 1..Len(self.openapi_specs) |->
                 [o \in 1..Len(self.openapi_specs[s].spec.operations) |->
                     self.openapi_specs[s].prefix \o <<"/">>
                     \o slug(self.openapi_specs[s].spec.operations[o])]], <<>>)

\* The ApiEndpointEntry of an operation
EndpointEntry(operation) ==
    [slug |-> slug(operation),
     title |-> IF operation.summary # <<>> THEN operation.summary[1]
               ELSE Replace(slug(operation), <<"-">>, <<" ">>),
     method |-> operation.method]

TagNames(spec) == {spec.tags[t].name : t \in 1..Len(spec.tags)}

HasTag(operation, name) == \E t \in 1..Len(operation.tags) : operation.tags[t] = name

IsUntagged(spec, operation) ==
    operation.tags = <<>> \/ \A t \in 1..Len(operation.tags) : operation.tags[t] \notin TagNames(spec)

EntriesOf(operations) == [o \in 1..Len(operations) |-> EndpointEntry(operations[o])]

\* The groups of get_api_sidebar_entries for one spec: one per tag that has operations,
\* then the untagged operations under Other
spec_sidebar_groups(spec) ==
    JoinWith([t \in 1..Len(spec.tags) |->
                 Bind(SelectSeq(spec.operations, LAMBDA operation : HasTag(operation, spec.tags[t].name)),
                      LAMBDA tagged :
                          IF tagged = <<>> THEN <<>>
                          ELSE <<[tag |-> spec.tags[t], entries |-> EntriesOf(tagged)]>>)], <<>>)
    \o Bind(SelectSeq(spec.operations, LAMBDA operation : IsUntagged(spec, operation)),
            LAMBDA untagged :
                IF untagged = <<>> THEN <<>>
                ELSE <<[tag |-> [name |-> <<"Other">>, description |-> <<>>],
                        entries |-> EntriesOf(untagged)]>>)

\* DocsRegistry::get_api_sidebar_entries
get_api_sidebar_entries(self) ==
    JoinWith([s \in 1..Len(self.openapi_specs) |->
                 spec_sidebar_groups(self.openapi_specs[s].spec)], <<>>)

\* ApiSidebarLink: the path of the link of an entry
ApiSidebarLink(self, entry_slug) ==
    UnwrapOr(get_first_api_prefix(self), <<"api-reference">>) \o <<"/">> \o entry_slug

\* The paths of the API links of the sidebar, in the order of the groups and entries
sidebar_api_paths(self) ==
    JoinWith([g \in 1..Len(get_api_sidebar_entries(self)) |->
                 [e \in 1..Len(get_api_sidebar_entries(self)[g].entries) |->
                     ApiSidebarLink(self, get_api_sidebar_entries(self)[g].entries[e].slug)]],
             <<>>)

\* DocsPageContent with the spec that owns the operation's prefix
docs_page_content_own_spec(registry, path) ==
    IF get_api_operation(registry, path) # <<>>
    THEN [view |-> "endpoint", operation |-> get_api_operation(registry, path)[1],
          spec |-> (CHOOSE e \in {registry.openapi_specs[s] : s \in 1..Len(registry.openapi_specs)} :
                        /\ StripPrefix(path, e.prefix) # <<>>
                        /\ FindOperation(e.spec, StripPrefix(path, e.prefix)[1]) # <<>>).spec]
    ELSE IF path \notin DOMAIN registry.parsed_docs THEN [view |-> "not_found"]
    ELSE [view |-> "doc",
          headers |-> extract_headers(registry.parsed_docs[path].raw_markdown),
          nodes |-> registry.parsed_docs[path].content]

\* DocsPageContent: what is rendered for a path: the endpoint page of an operation, the
\* 404 page, or the document with its table of contents
docs_page_content(registry, path) ==
    IF get_api_operation(registry, path) # <<>> /\ get_first_api_spec(registry) # <<>>
    THEN [view |-> "endpoint", operation |-> get_api_operation(registry, path)[1],
          spec |-> get_first_api_spec(registry)[1]]
    ELSE IF path \notin DOMAIN registry.parsed_docs THEN [view |-> "not_found"]
    ELSE [view |-> "doc",
          headers |-> extract_headers(registry.parsed_docs[path].raw_markdown),
          nodes |-> registry.parsed_docs[path].content]

(***************************************************************************)
(* Inputs: concatenations of at most MaxFrags fragments, and components     *)
(* placed in the body of a container.                                       *)
(***************************************************************************)
RECURSIVE Flatten(_)
Flatten(ss) == IF ss = <<>> THEN <<>> ELSE Head(ss) \o Flatten(Tail(ss))

Texts(frags, n) == {Flatten(fs) : fs \in UNION {[1..k -> frags] : k \in 0..n}}

ProseFrag == <<"x">>
NonAsciiFrag == <<"U+00E9">>
SpaceFrag == <<" ">>
NewlineFrag == <<"\n">>

TabOpenFrag == <<"<", "Tab", " ", "title=\"a\"", ">">>
TabCloseFrag == CloseTag(TabName)
TabsOpenFrag == <<"<", "Tab", "s", ">">>
TabsCloseFrag == CloseTag(TabsName)
NoteOpenFrag == <<"<", "Note", ">">>
NoteCloseFrag == <<"<", "/", "Note", ">">>

CardGroupOpenFrag == <<"<", "Card", "Group", ">">>
CardGroupCloseFrag == CloseTag(CardGroupName)
CardOpenFrag == <<"<", "Card", " ", "title=\"a\"", ">">>
CardCloseFrag == CloseTag(CardName)
CardSelfFrag == <<"<", "Card", " ", "title=\"a\"", " ", "/", ">">>
CardTruncFrag == <<"<", "Card">>

ParamOpenFrag == <<"<", "ParamField", " ", "path=\"a\"", ">">>
ParamSelfFrag == <<"<", "ParamField", " ", "path=\"b\"", " ", "/", ">">>
ParamCloseFrag == CloseTag(ParamFieldName)
ResponseOpenFrag == <<"<", "ResponseField", " ", "name=\"a\"", ">">>
ResponseSelfFrag == <<"<", "ResponseField", " ", "name=\"b\"", " ", "/", ">">>
ResponseCloseFrag == CloseTag(ResponseFieldName)

DelimLineFrag == Delim \o <<"\n">>
EntryLineFrag == <<"title: T", "\n">>
BadLineFrag == <<"title: [", "\n">>
DashTextLineFrag == Delim \o <<"x", "\n">>

CloseFrags == {TabOpenFrag, TabCloseFrag, TabsOpenFrag, TabsCloseFrag, ProseFrag}

CardFrags ==
    {CardGroupOpenFrag, CardGroupCloseFrag, CardOpenFrag, CardCloseFrag, CardSelfFrag,
     CardTruncFrag, ProseFrag, NonAsciiFrag}

TabFrags ==
    {TabsOpenFrag, TabsCloseFrag, TabOpenFrag, TabCloseFrag, NoteOpenFrag, NoteCloseFrag,
     ProseFrag, NonAsciiFrag}

FieldFrags ==
    {ParamOpenFrag, ParamSelfFrag, ParamCloseFrag, ResponseOpenFrag, ResponseSelfFrag,
     ResponseCloseFrag, ProseFrag}

FrontmatterFrags ==
    {DelimLineFrag, Delim, EntryLineFrag, BadLineFrag, DashTextLineFrag, ProseFrag,
     SpaceFrag, NewlineFrag}

CloseTagNames == {TabName, TabsName}

\* One instance of each component, by the kind of node it parses to.
ChildTexts ==
    [Callout |-> NoteOpenFrag \o ProseFrag \o NoteCloseFrag,
     Card |-> CardOpenFrag \o ProseFrag \o CardCloseFrag,
     CardGroup |-> CardGroupOpenFrag \o CardOpenFrag \o ProseFrag \o CardCloseFrag
                   \o CardGroupCloseFrag,
     Tabs |-> TabsOpenFrag \o TabOpenFrag \o ProseFrag \o TabCloseFrag \o TabsCloseFrag,
     Steps |-> <<"<", "Step", "s", ">", "<", "Step", " ", "title=\"b\"", ">", "x">>
               \o CloseTag(StepName) \o CloseTag(StepsName),
     AccordionGroup |-> <<"<", "Accordion", "Group", ">", "<", "Accordion", " ",
                          "title=\"b\"", ">", "x">>
                        \o CloseTag(AccordionName) \o CloseTag(AccordionGroupName),
     Accordion |-> <<"<", "Accordion", " ", "title=\"b\"", ">", "x">>
                   \o CloseTag(AccordionName),
     ParamField |-> <<"<", "ParamField", " ", "path=\"b\"", ">", "x">>
                    \o CloseTag(ParamFieldName),
     ParamFieldSelfClosing |-> ParamSelfFrag,
     ResponseField |-> ResponseOpenFrag \o ProseFrag \o ResponseCloseFrag,
     Expandable |-> <<"<", "Expandable", " ", "title=\"a\"", ">">> \o ResponseSelfFrag
                    \o CloseTag(ExpandableName),
     CodeGroup |-> <<"<", "CodeGroup", ">", "\n">> \o Fence \o <<"rust", "\n", "x", "\n">>
                   \o Fence \o <<"\n">> \o CloseTag(CodeGroupName),
     Update |-> <<"<", "Update", " ", "label=\"l\"", ">", "x">> \o CloseTag(UpdateName),
     OpenApi |-> <<"<", "OpenAPI", ">", "{openapi}">> \o CloseTag(OpenAPIName)]

ChildKind(child) ==
    CASE child \in {"Card", "CardGroup"} -> "CardGroup"
      [] child \in {"Accordion", "AccordionGroup"} -> "AccordionGroup"
      [] child = "ParamFieldSelfClosing" -> "ParamField"
      [] OTHER -> child

\* The recursive containers, by the element whose body is parsed again: the
\* text before the body, the text after it, and the kind of the outer node.
Containers ==
    [Tab |-> [open |-> TabsOpenFrag \o TabOpenFrag,
              close |-> TabCloseFrag \o TabsCloseFrag, kind |-> "Tabs"],
     Step |-> [open |-> <<"<", "Step", "s", ">", "<", "Step", " ", "title=\"a\"", ">">>,
               close |-> CloseTag(StepName) \o CloseTag(StepsName), kind |-> "Steps"],
     Accordion |-> [open |-> <<"<", "Accordion", " ", "title=\"a\"", ">">>,
                    close |-> CloseTag(AccordionName), kind |-> "AccordionGroup"],
     ParamField |-> [open |-> ParamOpenFrag, close |-> ParamCloseFrag,
                     kind |-> "ParamField"],
     Update |-> [open |-> <<"<", "Update", " ", "label=\"l\"", ">">>,
                 close |-> CloseTag(UpdateName), kind |-> "Update"]]

Pads == {<<>>, NewlineFrag}

Wrap(container, pad, child) ==
    Containers[container].open \o pad \o ChildTexts[child] \o pad \o Containers[container].close

NestTexts ==
    {ChildTexts[child] : child \in DOMAIN ChildTexts}
    \cup {Wrap(container, pad, child) :
             container \in DOMAIN Containers, pad \in Pads, child \in DOMAIN ChildTexts}

\* Prose lines and fenced code blocks outside any component: a block is an
\* opening fence line, a body and a closing fence line.
FenceOpenFrag == Fence \o <<"rust", "\n">>
FenceCloseFrag == <<"\n">> \o Fence \o <<"\n">>
ProseLineFrag == <<"x", "\n">>
ScriptTagFrag == <<"<", "script", ">">>

FenceBodies ==
    {ProseFrag, ScriptTagFrag, NoteOpenFrag \o ProseFrag \o NoteCloseFrag, CardTruncFrag}

FenceUnits ==
    {[kind |-> "prose", body |-> <<>>]} \cup {[kind |-> "fence", body |-> b] : b \in FenceBodies}

UnitText(u) ==
    IF u.kind = "prose" THEN ProseLineFrag ELSE FenceOpenFrag \o u.body \o FenceCloseFrag

FenceUnitSeqs == UNION {[1..k -> FenceUnits] : k \in 0..MaxUnits}

UnitsText(us) == Flatten([i \in 1..Len(us) |-> UnitText(us[i])])

FenceTexts == {UnitsText(us) : us \in FenceUnitSeqs}

(***************************************************************************)
(* Actions: each applies one function of the parser to the input.          *)
(***************************************************************************)
FindClosingTag ==
    /\ op = "none"
    /\ \E tag_name \in CloseTagNames :
        /\ op' = "find_closing_tag"
        /\ out' = [tag_name |-> tag_name, idx |-> find_closing_tag(input, tag_name)]
    /\ UNCHANGED input

ParseContent ==
    /\ op = "none"
    /\ op' = "parse_content"
    /\ out' = parse_content(input)
    /\ UNCHANGED input

TryParseParamField ==
    /\ op = "none"
    /\ op' = "try_parse_param_field"
    /\ out' = try_parse_param_field(input)
    /\ UNCHANGED input

TryParseResponseField ==
    /\ op = "none"
    /\ op' = "try_parse_response_field"
    /\ out' = try_parse_response_field(input)
    /\ UNCHANGED input

ExtractFrontmatter ==
    /\ op = "none"
    /\ op' = "extract_frontmatter"
    /\ out' = extract_frontmatter(input)
    /\ UNCHANGED input

Next ==
    \/ FindClosingTag
    \/ ParseContent
    \/ TryParseParamField
    \/ TryParseResponseField
    \/ ExtractFrontmatter

InitWith(texts) ==
    /\ input \in texts
    /\ op = "none"
    /\ out = [idx |-> None]

InitClose == InitWith(Texts(CloseFrags, MaxFrags + 1))
SpecClose == InitClose /\ [][Next]_vars

InitCards == InitWith(Texts(CardFrags, MaxFrags))
SpecCards == InitCards /\ [][Next]_vars

InitTabs == InitWith(Texts(TabFrags, MaxFrags))
SpecTabs == InitTabs /\ [][Next]_vars

InitFields == InitWith(Texts(FieldFrags, MaxFrags))
SpecFields == InitFields /\ [][Next]_vars

InitNest == InitWith(NestTexts)
SpecNest == InitNest /\ [][Next]_vars

InitFrontmatter == InitWith(Texts(FrontmatterFrags, MaxFrags))
SpecFrontmatter == InitFrontmatter /\ [][Next]_vars

InitFences == InitWith(FenceTexts)
SpecFences == InitFences /\ [][Next]_vars

(***************************************************************************)
(* Inputs of the OpenAPI functions: documents as openapiv3 reads them,     *)
(* parameter lists, schema definitions and operations.                     *)
(***************************************************************************)
SeqsUpTo(S, n) == UNION {[1..k -> S] : k \in 0..n}

SchemaData0 == [description |-> <<>>, example |-> <<>>, default |-> <<>>, nullable |-> FALSE]

StringSchema ==
    [schema_data |-> SchemaData0,
     schema_kind |-> [kind |-> "String", format |-> [kind |-> "Empty"], enumeration |-> <<>>]]

IntegerSchema ==
    [schema_data |-> SchemaData0, schema_kind |-> [kind |-> "Integer", format |-> [kind |-> "Empty"]]]

ObjectSchema(properties) ==
    [schema_data |-> SchemaData0,
     schema_kind |-> [kind |-> "Object", properties |-> properties, required |-> <<>>,
                      additional_properties |-> <<>>]]

ArraySchema(items) ==
    [schema_data |-> SchemaData0, schema_kind |-> [kind |-> "Array", items |-> <<items>>]]

SchemaRef(name) == Reference(SchemasPrefix \o name)

\* components.schemas: none, a plain schema, A -> B -> A, A -> A through a
\* property, A -> A through its items, a property that names a schema that
\* is not there, and an entry that is itself a reference.
CycleAB ==
    (<<"A">> :> Item(ObjectSchema(<<"b">> :> SchemaRef(<<"B">>))))
        @@ (<<"B">> :> Item(ObjectSchema(<<"a">> :> SchemaRef(<<"A">>))))

CycleProperty == (<<"A">> :> Item(ObjectSchema(<<"a">> :> SchemaRef(<<"A">>))))

CycleItems == (<<"A">> :> Item(ArraySchema(SchemaRef(<<"A">>))))

SchemaMaps ==
    { EmptyMap,
      (<<"A">> :> Item(StringSchema)),
      CycleAB, CycleProperty, CycleItems,
      (<<"A">> :> Item(ObjectSchema(<<"b">> :> SchemaRef(<<"B">>)))),
      (<<"A">> :> SchemaRef(<<"B">>)) @@ (<<"B">> :> Item(StringSchema)) }

ComponentsOf(schemas) ==
    <<[schemas |-> schemas, parameters |-> EmptyMap, request_bodies |-> EmptyMap,
       responses |-> EmptyMap]>>

\* The schema references of the model: inline, to A, to B, to a name with
\* the prefix of another section, and to another file.
SchemaRefs ==
    { Item(StringSchema), SchemaRef(<<"A">>), SchemaRef(<<"B">>),
      Reference(<<"#/components/responses/", "A">>), Reference(<<"other.yaml#/", "A">>) }

OperationOf(operation_id, parameters, responses) ==
    [operation_id |-> operation_id, summary |-> <<>>, description |-> <<>>, tags |-> <<>>,
     parameters |-> parameters, request_body |-> <<>>, responses |-> responses,
     deprecated |-> FALSE]

JsonResponse(schema_ref) ==
    [code |-> [kind |-> "Code", code |-> <<"2", "00">>],
     resp |-> Item([description |-> <<"ok">>,
                    content |-> <<[media_type |-> <<"application/", "json">>,
                                   media |-> [schema |-> <<schema_ref>>, example |-> <<>>]]>>])]

PathItemOf(parameters, get) ==
    [parameters |-> parameters,
     ops |-> [m \in {Methods[i] : i \in 1..Len(Methods)} |-> IF m = "Get" THEN <<get>> ELSE <<>>]]

PetPath == <<"/", "pets", "/", "{", "id", "}">>

\* A document with one GET operation whose response has the given schema.
ApiDoc(components, schema_ref) ==
    [info |-> [title |-> <<"T">>, version |-> <<"1">>, description |-> <<>>],
     servers |-> <<>>, tags |-> <<>>, components |-> components,
     paths |-> <<[path |-> PetPath,
                  item |-> Item(PathItemOf(<<>>, OperationOf(<<>>, <<>>,
                                                             <<JsonResponse(schema_ref)>>)))]>>]

ApiDocs ==
    {ApiDoc(components, schema_ref) :
        components \in {<<>>} \cup {ComponentsOf(schemas) : schemas \in SchemaMaps},
        schema_ref \in SchemaRefs}

\* The texts given to parse_openapi, by what the two deserializers read.
ContentInputs ==
    {[kind |-> "content", yaml |-> <<>>, json |-> <<>>]}
    \cup UNION {{[kind |-> "content", yaml |-> y, json |-> j] :
                    y \in {<<>>, <<d>>}, j \in {<<>>, <<d>>}} : d \in ApiDocs}

SchemaRefInputs ==
    {[kind |-> "schema_ref", schema_ref |-> schema_ref, spec |-> ApiDoc(components, schema_ref)] :
        components \in {<<>>} \cup {ComponentsOf(schemas) : schemas \in SchemaMaps},
        schema_ref \in SchemaRefs}

ParameterOf(location, name, format) ==
    Item([kind |-> location,
          data |-> [name |-> name, description |-> <<>>, required |-> location = "Path",
                    deprecated |-> <<>>, format |-> format, example |-> <<>>]])

SchemaFormat(schema_ref) == [kind |-> "Schema", schema |-> schema_ref]

\* Parameters of an operation or of a path item: two definitions of id, one
\* of q, one described by content and one reference that does not resolve.
ParameterPool ==
    { ParameterOf("Path", <<"id">>, SchemaFormat(Item(StringSchema))),
      ParameterOf("Path", <<"id">>, SchemaFormat(Item(IntegerSchema))),
      ParameterOf("Query", <<"q">>, SchemaFormat(Item(StringSchema))),
      ParameterOf("Query", <<"a">>, [kind |-> "Content"]),
      Reference(ParametersPrefix \o <<"b">>) }

OperationInputs ==
    {[kind |-> "operation", path_params |-> pp, op_params |-> p] :
        pp \in SeqsUpTo(ParameterPool, MaxParams), p \in SeqsUpTo(ParameterPool, MaxParams)}

StringDef == [DefaultSchemaDefinition EXCEPT !.schema_type = "String"]

IntegerDef == [DefaultSchemaDefinition EXCEPT !.schema_type = "Integer"]

ArrayOf(def) == [DefaultSchemaDefinition EXCEPT !.schema_type = "Array", !.items = <<def>>]

ObjectOf(properties) ==
    [DefaultSchemaDefinition EXCEPT !.schema_type = "Object", !.properties = properties]

WithExample(def, example) == [def EXCEPT !.example = <<example>>]

\* n arrays, or n objects with the one property a, around a leaf.
RECURSIVE ArrayChain(_, _)
ArrayChain(n, leaf) == IF n = 0 THEN leaf ELSE ArrayOf(ArrayChain(n - 1, leaf))

RECURSIVE ObjectChain(_, _)
ObjectChain(n, leaf) == IF n = 0 THEN leaf ELSE ObjectOf(<<"a">> :> ObjectChain(n - 1, leaf))

LeafDefs ==
    { StringDef, IntegerDef, DefaultSchemaDefinition,
      WithExample(StringDef, <<"7">>), WithExample(StringDef, <<"x">>),
      [StringDef EXCEPT !.format = << <<"uuid">> >>],
      [StringDef EXCEPT !.enum_values = << <<"a">>, <<"b">> >>],
      [IntegerDef EXCEPT !.default = << <<"7">> >>],
      ArrayOf(WithExample(IntegerDef, <<"7">>)),
      [DefaultSchemaDefinition EXCEPT !.schema_type = "Array"],
      [DefaultSchemaDefinition EXCEPT !.schema_type = "Object"] }

SchemaDefs ==
    {ArrayChain(n, leaf) : n \in 0..MaxChain, leaf \in LeafDefs}
    \cup {ObjectChain(n, leaf) : n \in 0..MaxChain, leaf \in LeafDefs}

SchemaInputs ==
    {[kind |-> "schema", schema |-> schema, depth |-> depth] :
        schema \in SchemaDefs, depth \in 0..MaxDepth}

ApiOperationOf(operation_id, method, path, parameters, request_body, responses) ==
    [operation_id |-> operation_id, method |-> method, path |-> path, summary |-> <<>>,
     description |-> <<>>, tags |-> <<>>, parameters |-> parameters,
     request_body |-> request_body, responses |-> responses, deprecated |-> FALSE]

ApiParameterOf(name, location, schema) ==
    [name |-> name, location |-> location, description |-> <<>>,
     required |-> location = "Path", deprecated |-> FALSE, schema |-> schema,
     example |-> <<>>]

BraceExample == <<"{", "id", "}">>

ApiParameterPool ==
    { ApiParameterOf(<<"id">>, "Path", <<StringDef>>),
      ApiParameterOf(<<"id">>, "Path", <<IntegerDef>>),
      ApiParameterOf(<<"id">>, "Path", <<>>),
      ApiParameterOf(<<"id">>, "Path", <<WithExample(StringDef, BraceExample)>>),
      ApiParameterOf(<<"q">>, "Query", <<StringDef>>),
      ApiParameterOf(<<"q">>, "Query", <<WithExample(StringDef, BraceExample)>>),
      ApiParameterOf(<<"q">>, "Header", <<StringDef>>) }

MediaOf(media_type, schema) == [media_type |-> media_type, schema |-> schema, example |-> <<>>]

JsonType == <<"application/", "json">>
TextType == <<"text/", "plain">>

RequestBodies ==
    { <<>>,
      <<[description |-> <<>>, required |-> TRUE,
         content |-> <<MediaOf(TextType, <<StringDef>>),
                       MediaOf(JsonType, <<ObjectOf(<<"a">> :> IntegerDef)>>)>>]>>,
      <<[description |-> <<>>, required |-> TRUE, content |-> <<MediaOf(JsonType, <<>>)>>]>> }

CurlOperations ==
    {ApiOperationOf(<<>>, method, path, parameters, request_body, <<>>) :
        method \in {"Get", "Post", "Delete"}, path \in {PetPath, <<"/", "pets">>},
        parameters \in SeqsUpTo(ApiParameterPool, MaxParams), request_body \in RequestBodies}

OperationIds ==
    { <<>>, << <<"l", "i", "s", "t", "P", "e", "t", "s">> >>, << <<"P", "e", "t">> >>,
      << <<"g", "e", "t", "A", "B">> >>, << <<"a", "-", "b">> >>, << <<>> >> }

SlugPaths ==
    { PetPath, <<"/", "pets">>, <<"/">>, <<"/", "pets", "/", "{", "id", "}", "/">>,
      <<"pets", "/", "/", "id">>, <<>> }

SlugOperations ==
    {ApiOperationOf(operation_id, Methods[i], path, <<>>, <<>>, <<>>) :
        operation_id \in OperationIds, i \in 1..Len(Methods), path \in SlugPaths}

ApiResponseOf(status_code, content) ==
    [status_code |-> status_code, description |-> <<>>, content |-> content]

ApiResponsePool ==
    { ApiResponseOf(<<"2", "00">>, <<MediaOf(JsonType, <<StringDef>>)>>),
      ApiResponseOf(<<"2", "00">>, <<MediaOf(TextType, <<IntegerDef>>)>>),
      ApiResponseOf(<<"2", "01">>, <<MediaOf(JsonType, <<>>),
                                     MediaOf(JsonType, <<ObjectOf(<<"a">> :> IntegerDef)>>)>>),
      ApiResponseOf(<<"2", "04">>, <<>>),
      ApiResponseOf(<<"2", "XX">>, <<MediaOf(JsonType, <<IntegerDef>>)>>),
      ApiResponseOf(<<"4", "04">>, <<MediaOf(JsonType, <<StringDef>>)>>),
      ApiResponseOf(<<"default">>, <<MediaOf(JsonType, <<StringDef>>)>>) }

ResponseOperations ==
    {ApiOperationOf(<<>>, "Get", PetPath, <<>>, <<>>, responses) :
        responses \in SeqsUpTo(ApiResponsePool, MaxResponses)}

ApiOperationInputs ==
    {[kind |-> "api_operation", operation |-> operation] :
        operation \in CurlOperations \cup SlugOperations \cup ResponseOperations}

BaseUrls == {<<"http://x">>, <<"http://x", "/">>}

\* The pages of a site: prose, a page with frontmatter, a page with an
\* import line before a callout, a page with the feedback widget, and a page
\* on which parse_content panics.
PageTexts ==
    { ProseFrag,
      DelimLineFrag \o EntryLineFrag \o DelimLineFrag \o ProseFrag,
      <<"import", " ", "x", ";", "\n">> \o NoteOpenFrag \o ProseFrag \o NoteCloseFrag,
      OpenTag(WidgetName) \o <<" ", "/", ">">> \o ProseFrag,
      TabsOpenFrag \o NonAsciiFrag \o TabsCloseFrag }

IntroPage == <<"intro">>
GuidePage == <<"guide", "/", "get", "-", "started">>

ContentMaps ==
    UNION {[paths -> PageTexts] : paths \in SUBSET {IntroPage, GuidePage}}

NavConfigs ==
    { [tabs |-> <<>>, groups |-> <<>>],
      [tabs |-> <<>>,
       groups |-> <<[group |-> <<"Docs">>, tab |-> <<>>, pages |-> <<GuidePage, IntroPage>>]>>] }

\* The texts of the OpenAPI specs of a site: YAML, JSON, a text that is
\* neither, and a YAML document with a cycle among its schemas.
SpecTexts ==
    { [yaml |-> <<ApiDoc(<<>>, Item(StringSchema))>>, json |-> <<>>],
      [yaml |-> <<>>, json |-> <<ApiDoc(<<>>, Item(StringSchema))>>],
      [yaml |-> <<>>, json |-> <<>>],
      [yaml |-> <<ApiDoc(ComponentsOf(CycleAB), SchemaRef(<<"A">>))>>, json |-> <<>>] }

SpecEntries == {[prefix |-> <<"api">>, yaml |-> yaml] : yaml \in SpecTexts}

ConfigInputs ==
    {[kind |-> "config", nav_json |-> nav_json, content_map |-> content_map,
      openapi_specs |-> openapi_specs, default_path |-> overrides,
      api_group_name |-> overrides, theme |-> <<>>] :
        nav_json \in {<<>>} \cup {<<nav>> : nav \in NavConfigs},
        content_map \in ContentMaps,
        openapi_specs \in SeqsUpTo(SpecEntries, MaxSpecs),
        overrides \in {<<>>, <<IntroPage>>}}

ApiInputs ==
    ContentInputs \cup SchemaRefInputs \cup OperationInputs \cup SchemaInputs
    \cup ApiOperationInputs \cup ConfigInputs

(***************************************************************************)
(* Actions on the OpenAPI inputs: each applies one function to the input   *)
(* of its kind.                                                            *)
(***************************************************************************)
ParseOpenapi ==
    /\ op = "none"
    /\ input.kind = "content"
    /\ op' = "parse_openapi"
    /\ out' = parse_openapi(input)
    /\ UNCHANGED input

ResolveAndTransformSchema ==
    /\ op = "none"
    /\ input.kind = "schema_ref"
    /\ op' = "resolve_and_transform_schema"
    /\ out' = resolve_and_transform_schema(input.schema_ref, input.spec, {})
    /\ UNCHANGED input

\* The document the operations of TransformOperation belong to.
OperationDoc == ApiDoc(<<>>, Item(StringSchema))

TransformOperation ==
    /\ op = "none"
    /\ input.kind = "operation"
    /\ op' = "transform_operation"
    /\ out' = transform_operation(PetPath, "Get", OperationOf(<<>>, input.op_params, <<>>),
                                  input.path_params, OperationDoc)
    /\ UNCHANGED input

GenerateExampleJson ==
    /\ op = "none"
    /\ input.kind = "schema"
    /\ op' = "generate_example_json"
    /\ out' = Ok(generate_example_json(input.schema, input.depth))
    /\ UNCHANGED input

Slug ==
    /\ op = "none"
    /\ input.kind = "api_operation"
    /\ op' = "slug"
    /\ out' = Ok(slug(input.operation))
    /\ UNCHANGED input

GenerateCurl ==
    /\ op = "none"
    /\ input.kind = "api_operation"
    /\ \E base_url \in BaseUrls :
        /\ op' = "generate_curl"
        /\ out' = [st |-> "ok", base_url |-> base_url,
                   val |-> generate_curl(input.operation, base_url)]
    /\ UNCHANGED input

GenerateResponseExample ==
    /\ op = "none"
    /\ input.kind = "api_operation"
    /\ op' = "generate_response_example"
    /\ out' = Ok(generate_response_example(input.operation.responses))
    /\ UNCHANGED input

FromConfig ==
    /\ op = "none"
    /\ input.kind = "config"
    /\ op' = "from_config"
    /\ out' \in from_config(input)
    /\ UNCHANGED input

NextApi ==
    \/ ParseOpenapi
    \/ ResolveAndTransformSchema
    \/ TransformOperation
    \/ GenerateExampleJson
    \/ Slug
    \/ GenerateCurl
    \/ GenerateResponseExample
    \/ FromConfig

InitApi == InitWith(ApiInputs)
SpecApi == InitApi /\ [][NextApi]_vars

(***************************************************************************)
(* Inputs and actions of the page functions: titles for slugify, markdown  *)
(* for extract_headers, Steps bodies and pages.                            *)
(***************************************************************************)
MaxTitle == 4

TocAtoms == {"A", "a", "b", "1", " ", "-", "_", ".", "!", "U+00E9", "U+03A3", "U+0130"}

Titles == UNION {[1..k -> TocAtoms] : k \in 0..MaxTitle}

TitleInputs == {[kind |-> "title", text |-> t] : t \in Titles}

\* Bodies of a Steps element: Step blocks, heading lines, a deeper heading, a heading
\* mark inside a line, a heading line inside a code fence, and prose lines.
StepBlockFrag == <<"<", "Step", " ", "title=\"a\"", ">", "x">> \o CloseTag(StepName)
StepBlockBFrag == <<"<", "Step", " ", "title=\"b\"", ">", "\n", "y", "\n">> \o CloseTag(StepName)
HeadingLineFrag == <<"###", " ", "a", "\n">>
HeadingLineBFrag == <<"###", " ", " ", "b", " ", "\n">>
DeepHeadingFrag == <<"####", " ", "a", "\n">>
InlineMarkFrag == <<"x", " ", "###", " ", "b", "\n">>
FencedHeadingFrag == Fence \o <<"\n", "###", " ", "b", "\n">> \o Fence \o <<"\n">>

StepsFrags ==
    {StepBlockFrag, StepBlockBFrag, HeadingLineFrag, HeadingLineBFrag, DeepHeadingFrag,
     InlineMarkFrag, FencedHeadingFrag, ProseLineFrag}

StepsInputs == {[kind |-> "steps", text |-> t] : t \in Texts(StepsFrags, MaxFrags)}

\* Pages: no frontmatter block, a block with a title or an empty block, and then a
\* body of delimiter lines, mapping entries, prose and blank lines.
PageHeads == {<<>>, DelimLineFrag \o EntryLineFrag \o DelimLineFrag, DelimLineFrag \o DelimLineFrag}

PageBodyFrags == {DelimLineFrag, EntryLineFrag, BadLineFrag, ProseLineFrag, NewlineFrag}

PageInputs ==
    {[kind |-> "page", text |-> head \o body] :
        head \in PageHeads, body \in Texts(PageBodyFrags, MaxFrags)}

\* MDX texts: import lines, prose lines and fenced code blocks whose body is prose, an
\* import line, prose followed by an import line, or a line with import inside it.
ImportFrag == <<"import", " ", "x", ";">>

MdxBodies ==
    {ProseFrag, ImportFrag, <<"y", "\n">> \o ImportFrag, <<"y", " ">> \o ImportFrag}

MdxUnits ==
    {[kind |-> "prose", body |-> <<>>], [kind |-> "import", body |-> <<>>]}
    \cup {[kind |-> "fence", body |-> b] : b \in MdxBodies}

MdxUnitText(u) ==
    IF u.kind = "prose" THEN ProseLineFrag
    ELSE IF u.kind = "import" THEN ImportFrag \o <<"\n">>
    ELSE FenceOpenFrag \o u.body \o FenceCloseFrag

MdxInputs ==
    {[kind |-> "mdx", units |-> us,
      text |-> Flatten([i \in 1..Len(us) |-> MdxUnitText(us[i])])] :
        us \in SeqsUpTo(MdxUnits, MaxUnits)}

DocInputs == TitleInputs \cup StepsInputs \cup PageInputs \cup MdxInputs

Slugify ==
    /\ op = "none"
    /\ input.kind = "title"
    /\ op' = "slugify"
    /\ out' = Ok(slugify(input.text))
    /\ UNCHANGED input

ParseSteps ==
    /\ op = "none"
    /\ input.kind = "steps"
    /\ op' = "parse_steps"
    /\ out' = parse_steps(input.text)
    /\ UNCHANGED input

ParseDocument ==
    /\ op = "none"
    /\ input.kind = "page"
    /\ op' = "parse_document"
    /\ out' = parse_document(input.text)
    /\ UNCHANGED input

ParseMdx ==
    /\ op = "none"
    /\ input.kind = "mdx"
    /\ op' = "parse_mdx"
    /\ out' = parse_mdx(input.text)
    /\ UNCHANGED input

NextDoc ==
    \/ Slugify
    \/ ParseSteps
    \/ ParseDocument
    \/ ParseMdx

InitDoc == InitWith(DocInputs)
SpecDoc == InitDoc /\ [][NextDoc]_vars

(***************************************************************************)
(* Inputs and actions of the registry: a registry as from_config builds    *)
(* it, with a query or a page path.                                        *)
(***************************************************************************)
MaxQuery == 2

\* The ParsedDoc of a page with the given frontmatter and a prose body.
DocOf(title, description, text) ==
    [frontmatter |-> [DefaultFrontmatter EXCEPT !.title = title, !.description = description],
     content |-> <<[kind |-> "Markdown", text |-> text]>>,
     raw_markdown |-> get_raw_markdown(<<[kind |-> "Markdown", text |-> text]>>)]

SearchDocs0 ==
    {DocOf(title, description, text) :
        title \in {"A", "b"},
        description \in {<<>>, << <<"a", "U+03A3", "a">> >>, << <<"b">> >>},
        text \in {<<"x">>, <<"A", "b">>}}

DocsNav ==
    [tabs |-> <<>>,
     groups |-> <<[group |-> <<"Docs">>, tab |-> <<>>, pages |-> <<GuidePage, IntroPage>>]>>]

SpecOf(operations) == [InlineSpec EXCEPT !.operations = operations]

SummaryOperation ==
    [ApiOperationOf(<<>>, "Get", <<"/", "b">>, <<>>, <<>>, <<>>)
        EXCEPT !.summary = << <<"a", " ", "b">> >>, !.description = << <<"A">> >>]

SearchSpecs == {<<>>, <<[prefix |-> <<"api">>, spec |-> SpecOf(<<SummaryOperation>>)]>>}

Queries == SeqsUpTo({"a", "A", "b", " ", "U+03A3"}, MaxQuery)

SearchInputs ==
    {[kind |-> "search", registry |-> RegistryOf(DocsNav, parsed_docs, openapi_specs),
      query |-> query] :
        parsed_docs \in [{IntroPage, GuidePage} -> SearchDocs0],
        openapi_specs \in SearchSpecs,
        query \in Queries}

\* Sites with API specs: up to MaxSpecs specs under the prefixes api and v2, each with
\* one or two of three operations; two of the operations have ids with the same slug.
ApiOperations ==
    { ApiOperationOf(<< <<"a", "B">> >>, "Get", <<"/", "a">>, <<>>, <<>>, <<>>),
      ApiOperationOf(<< <<"a", "-", "b">> >>, "Post", <<"/", "a">>, <<>>, <<>>, <<>>),
      ApiOperationOf(<<>>, "Get", <<"/", "b">>, <<>>, <<>>, <<>>) }

ApiSpecs ==
    {SpecOf(operations) :
        operations \in {ops \in SeqsUpTo(ApiOperations, 2) :
                            ops # <<>> /\ (Len(ops) = 2 => ops[1] # ops[2])}}

ApiSpecEntries == {[prefix |-> prefix, spec |-> spec] : prefix \in {<<"api">>, <<"v2">>}, spec \in ApiSpecs}

IntroDocs == [page \in {IntroPage} |-> DocOf("A", <<>>, <<"x">>)]

ApiRegistries ==
    {RegistryOf(DocsNav, IntroDocs, openapi_specs) :
        openapi_specs \in SeqsUpTo(ApiSpecEntries, MaxSpecs)}

SiteInputs == {[kind |-> "site", registry |-> registry] : registry \in ApiRegistries}

Range(seq) == {seq[i] : i \in 1..Len(seq)}

ApiPageInputs ==
    UNION {{[kind |-> "page", registry |-> registry, path |-> path] :
               path \in Range(get_api_endpoint_paths(registry))
                         \cup {IntroPage, <<"api", "/", "none">>}} :
           registry \in ApiRegistries}

\* Pages for the table of contents: headings of levels 1 to 4 in prose, a heading line
\* inside a fenced code block, components whose titles get_raw_markdown writes as
\* headings, a heading inside a Tab, and prose.
TocPieces ==
    { <<"##", " ", "a", "\n", "x">>,
      <<"#", " ", "a", "\n", "###", " ", "b", "\n", "####", " ", "A", " ", "b">>,
      FenceOpenFrag \o <<"##", " ", "a">> \o FenceCloseFrag,
      ChildTexts.Tabs,
      ChildTexts.AccordionGroup,
      ChildTexts.Update,
      ChildTexts.Steps,
      TabsOpenFrag \o TabOpenFrag \o <<"##", " ", "b", "\n", "x">> \o TabCloseFrag \o TabsCloseFrag,
      ProseFrag }

TocPages ==
    {Flatten([i \in 1..Len(pieces) |-> pieces[i] \o <<"\n">>]) :
        pieces \in SeqsUpTo(TocPieces, 2)}

DocPageInputs ==
    {[kind |-> "page",
      registry |-> RegistryOf(DocsNav, [page \in {IntroPage} |-> parse_document(text).val],
                              <<>>),
      path |-> IntroPage] :
        text \in {t \in TocPages : parse_document(t).st = "ok"}}

RegistryInputs == SearchInputs \cup SiteInputs \cup ApiPageInputs \cup DocPageInputs

SearchDocs ==
    /\ op = "none"
    /\ input.kind = "search"
    /\ op' = "search_docs"
    /\ out' = Ok(search_docs(input.registry, input.query))
    /\ UNCHANGED input

GetApiEndpointPaths ==
    /\ op = "none"
    /\ input.kind = "site"
    /\ op' = "get_api_endpoint_paths"
    /\ out' = Ok(get_api_endpoint_paths(input.registry))
    /\ UNCHANGED input

\* SidebarGroup for the API group: the paths of the links of the endpoints
SidebarGroup ==
    /\ op = "none"
    /\ input.kind = "site"
    /\ op' = "SidebarGroup"
    /\ out' = Ok(sidebar_api_paths(input.registry))
    /\ UNCHANGED input

GetApiOperation ==
    /\ op = "none"
    /\ input.kind = "page"
    /\ op' = "get_api_operation"
    /\ out' = Ok(get_api_operation(input.registry, input.path))
    /\ UNCHANGED input

DocsPageContent ==
    /\ op = "none"
    /\ input.kind = "page"
    /\ op' = "DocsPageContent"
    /\ out' = Ok(docs_page_content(input.registry, input.path))
    /\ UNCHANGED input

NextRegistry ==
    \/ SearchDocs
    \/ GetApiEndpointPaths
    \/ SidebarGroup
    \/ GetApiOperation
    \/ DocsPageContent

InitRegistry == InitWith(RegistryInputs)
SpecRegistry == InitRegistry /\ [][NextRegistry]_vars

(***************************************************************************)
(* The search modal: search_open and query are signals that live as long   *)
(* as the layout; out holds them and the current path, op the last event.  *)
(***************************************************************************)
ModalRegistry ==
    RegistryOf(DocsNav,
               [page \in {IntroPage, GuidePage} |->
                   IF page = IntroPage THEN DocOf("A", <<>>, <<"x">>)
                   ELSE DocOf("b", << <<"b">> >>, <<"A", "b">>)],
               <<[prefix |-> <<"api">>, spec |-> SpecOf(<<SummaryOperation>>)]>>)

InitModal ==
    /\ input = [kind |-> "modal", registry |-> ModalRegistry]
    /\ op = "none"
    /\ out = [search_open |-> FALSE, query |-> <<>>, current_path |-> IntroPage]

\* use_memo(move || registry.search_docs(&query()))
results == search_docs(input.registry, out.query)

\* SearchButton: onclick
SearchButton ==
    /\ op' = "SearchButton"
    /\ out' = [out EXCEPT !.search_open = TRUE]
    /\ UNCHANGED input

\* DocsLayout: the Cmd/Ctrl+K listener, search_open.toggle()
ShortcutKey ==
    /\ op' = "ShortcutKey"
    /\ out' = [out EXCEPT !.search_open = ~out.search_open]
    /\ UNCHANGED input

\* SearchModal: oninput of the search field
OnInput ==
    /\ out.search_open
    /\ \E value \in Queries :
           out' = [out EXCEPT !.query = value]
    /\ op' = "oninput"
    /\ UNCHANGED input

\* SearchModal: on_keydown with Key::Enter
OnKeydownEnter ==
    /\ out.search_open
    /\ op' = "Enter"
    /\ out' = IF results # <<>>
              THEN [search_open |-> FALSE, query |-> <<>>, current_path |-> results[1].path]
              ELSE out
    /\ UNCHANGED input

\* SearchModal: on_keydown with Key::Escape
OnKeydownEscape ==
    /\ out.search_open
    /\ op' = "Escape"
    /\ out' = [out EXCEPT !.search_open = FALSE, !.query = <<>>]
    /\ UNCHANGED input

\* SearchModal: onclick of the backdrop
BackdropClick ==
    /\ out.search_open
    /\ op' = "BackdropClick"
    /\ out' = [out EXCEPT !.search_open = FALSE, !.query = <<>>]
    /\ UNCHANGED input

\* SearchModal: onclick of the close button
CloseButtonClick ==
    /\ out.search_open
    /\ op' = "CloseButtonClick"
    /\ out' = [out EXCEPT !.search_open = FALSE, !.query = <<>>]
    /\ UNCHANGED input

\* SearchResultItem: onclick
SearchResultItem ==
    /\ out.search_open
    /\ Trim(out.query) # <<>>
    /\ \E k \in 1..Len(results) :
           out' = [search_open |-> FALSE, query |-> <<>>, current_path |-> results[k].path]
    /\ op' = "SearchResultItem"
    /\ UNCHANGED input

NextModal ==
    \/ SearchButton
    \/ ShortcutKey
    \/ OnInput
    \/ OnKeydownEnter
    \/ OnKeydownEscape
    \/ BackdropClick
    \/ CloseButtonClick
    \/ SearchResultItem

SpecModal == InitModal /\ [][NextModal]_vars

(***************************************************************************)
(* The copy buttons (CopyButton, CopyMdxButton): every click spawns a task *)
(* that sets copied, waits 2000 ms and clears copied.  out holds copied    *)
(* and the tasks in spawn order, each "spawned" before its first poll and  *)
(* "waiting" with the ticks left on its timer after; op is the last step.  *)
(***************************************************************************)
MaxPending == 3
TimerTicks == 4

InitCopy ==
    /\ input = [kind |-> "copy"]
    /\ op = "none"
    /\ out = [copied |-> FALSE, tasks |-> <<>>]

\* onclick: spawn(async move { .. })
OnClick ==
    /\ Len(out.tasks) < MaxPending
    /\ op' = "onclick"
    /\ out' = [out EXCEPT !.tasks = Append(out.tasks, [stage |-> "spawned", left |-> TimerTicks])]
    /\ UNCHANGED input

\* The first poll of a spawned task, up to the await: copied.set(true) and the start of
\* the timer
TaskStart ==
    /\ \E k \in 1..Len(out.tasks) :
           /\ out.tasks[k].stage = "spawned"
           /\ \A j \in 1..(k - 1) : out.tasks[j].stage # "spawned"
           /\ out' = [copied |-> TRUE, tasks |-> [out.tasks EXCEPT ![k].stage = "waiting"]]
    /\ op' = "set_true"
    /\ UNCHANGED input

\* Time passes by one tick; a timer that is due fires first.
Tick ==
    /\ out.tasks # <<>>
    /\ \A k \in 1..Len(out.tasks) : out.tasks[k].stage = "waiting" => out.tasks[k].left > 0
    /\ \E k \in 1..Len(out.tasks) : out.tasks[k].stage = "waiting"
    /\ op' = "tick"
    /\ out' = [out EXCEPT !.tasks = [k \in 1..Len(out.tasks) |->
                                        IF out.tasks[k].stage = "spawned" THEN out.tasks[k]
                                        ELSE [out.tasks[k] EXCEPT !.left = @ - 1]]]
    /\ UNCHANGED input

\* The task resumes after TimeoutFuture::new(2000).await: copied.set(false), and the task
\* ends.
Timeout ==
    /\ \E k \in 1..Len(out.tasks) :
           /\ out.tasks[k].stage = "waiting"
           /\ out.tasks[k].left = 0
           /\ out' = [copied |-> FALSE,
                      tasks |-> [j \in 1..(Len(out.tasks) - 1) |->
                                    IF j < k THEN out.tasks[j] ELSE out.tasks[j + 1]]]
    /\ op' = "set_false"
    /\ UNCHANGED input

NextCopy ==
    \/ OnClick
    \/ TaskStart
    \/ Tick
    \/ Timeout

SpecCopy == InitCopy /\ [][NextCopy]_vars

\* Every spawned task is polled and every timer runs out.
FairCopy == SpecCopy /\ WF_vars(TaskStart) /\ WF_vars(Tick) /\ WF_vars(Timeout)

(***************************************************************************)
(* Text of a node tree, and tag balance counted from the text alone.       *)
(***************************************************************************)
ProseAtoms == {"x", "U+00E9"}

ProseOf(s) == SelectSeq(s, LAMBDA a : a \in ProseAtoms)

RECURSIVE IsSubseq(_, _)
IsSubseq(a, b) ==
    IF a = <<>> THEN TRUE
    ELSE IF b = <<>> THEN FALSE
    ELSE IF Head(a) = Head(b) THEN IsSubseq(Tail(a), Tail(b))
    ELSE IsSubseq(a, Tail(b))

\* The source text a node list carries, in the order of the tree.
RECURSIVE NodesText(_)
NodeText(n) ==
    CASE n.kind = "Markdown" -> n.text
      [] n.kind = "CodeBlock" -> Flatten(n.language) \o Flatten(n.filename) \o n.code
      [] n.kind = "Callout" -> n.content
      [] n.kind = "CardGroup" -> Flatten([i \in 1..Len(n.cards) |-> n.cards[i].content])
      [] n.kind = "Tabs" -> Flatten([i \in 1..Len(n.tabs) |-> NodesText(n.tabs[i].content)])
      [] n.kind = "AccordionGroup" ->
            Flatten([i \in 1..Len(n.items) |-> NodesText(n.items[i].content)])
      [] n.kind = "Steps" ->
            Flatten([i \in 1..Len(n.steps) |->
                        n.steps[i].title \o NodesText(n.steps[i].content)])
      [] n.kind \in {"Update", "ParamField"} -> NodesText(n.content)
      [] n.kind = "ResponseField" ->
            n.content \o Flatten([i \in 1..Len(n.expandable) |->
                                     NodesText(n.expandable[i].fields)])
      [] n.kind = "Expandable" -> NodesText(n.fields)
      [] n.kind \in {"CodeGroup", "RequestExample", "ResponseExample"} -> NodesText(n.blocks)
      [] n.kind = "OpenApi" -> n.spec

NodesText(nodes) == Flatten([i \in 1..Len(nodes) |-> NodeText(nodes[i])])

Kinds(nodes) == {nodes[i].kind : i \in 1..Len(nodes)}

\* The offsets below upto at which p occurs in s.
Occurrences(s, p, upto) == {i \in 0..(upto - 1) : MatchesAt(s, p, i)}

\* The first closing tag at which the closing tags seen outnumber the
\* occurrences of <T before it, or None.
FirstExcessClose(content, tag_name) ==
    LET excess == {c \in Occurrences(content, CloseTag(tag_name), Len(content)) :
                      Cardinality(Occurrences(content, CloseTag(tag_name), c + 1))
                          > Cardinality(Occurrences(content, OpenTag(tag_name), c))}
    IN  IF excess = {} THEN None ELSE Min(excess)

\* The tag that opens at offset i ends in "/>".
SelfClosingAt(s, i) ==
    LET gt == FindFrom(s, <<">">>, i)
    IN  gt # None /\ EndsWith(Trim(Slice(s, i, gt)), <<"/">>)

BlockOpens(s, tag_name, upto) ==
    {i \in Occurrences(s, OpenTag(tag_name), upto) : ~SelfClosingAt(s, i)}

\* The closing tag of the element whose body starts the text: the first
\* closing tag that outnumbers the block (not self-closing) openings before it.
OwnClose(content, tag_name) ==
    LET excess == {c \in Occurrences(content, CloseTag(tag_name), Len(content)) :
                      Cardinality(Occurrences(content, CloseTag(tag_name), c + 1))
                          > Cardinality(BlockOpens(content, tag_name, c))}
    IN  IF excess = {} THEN None ELSE Min(excess)

(***************************************************************************)
(* C1: parse_content terminates on every input, the scanning loops of the  *)
(* container parsers included.                                             *)
(***************************************************************************)
C1_ParseContentTerminates == op = "parse_content" => out.st # "diverge"

(***************************************************************************)
(* C2: parse_content never panics; every input yields a node list.         *)
(***************************************************************************)
C2_ParseContentNeverPanics == op = "parse_content" => out.st # "panic"

(***************************************************************************)
(* C3, as stated: every non-whitespace character of the input is carried   *)
(* by exactly one node of the tree, so nothing is duplicated or dropped.   *)
(***************************************************************************)
C3_EveryCharacterInOneNode ==
    (op = "parse_content" /\ out.st = "ok") => ProseOf(NodesText(out.val)) = ProseOf(input)

(***************************************************************************)
(* C3, amended: the text of the tree is a subsequence of the input (each   *)
(* character in at most one node, in source order), and when no component  *)
(* parser accepted anything the markdown nodes carry all of it.            *)
(***************************************************************************)
C3_NoTextDuplicated ==
    (op = "parse_content" /\ out.st = "ok") =>
        /\ IsSubseq(ProseOf(NodesText(out.val)), ProseOf(input))
        /\ Kinds(out.val) \subseteq {"Markdown", "CodeBlock"} =>
               ProseOf(NodesText(out.val)) = ProseOf(input)

C3_Witness ==
    /\ op = "parse_content"
    /\ out.st = "ok"
    /\ StartsWith(input, CardGroupOpenFrag)
    /\ "CardGroup" \in Kinds(out.val)
    /\ ProseOf(NodesText(out.val)) # <<>>
    /\ ProseOf(NodesText(out.val)) # ProseOf(input)
    /\ IsSubseq(ProseOf(NodesText(out.val)), ProseOf(input))

(***************************************************************************)
(* C4: find_closing_tag returns the first closing tag at which the closing *)
(* tags seen outnumber the <T openings seen, never an inner one, and None  *)
(* when there is no such tag.                                              *)
(***************************************************************************)
C4_ClosingTagBalance ==
    op = "find_closing_tag" => out.idx = FirstExcessClose(input, out.tag_name)

C4_Witness ==
    /\ op = "find_closing_tag"
    /\ StartsWith(input, TabOpenFrag)
    /\ out.tag_name = TabName
    /\ out.idx # None
    /\ Find(input, CloseTag(out.tag_name)) < out.idx

(***************************************************************************)
(* C5: a block ParamField or ResponseField whose body holds same-named     *)
(* children, block or self-closing, is parsed as one node and the          *)
(* remainder starts right after the element's own closing tag.             *)
(***************************************************************************)
C5_SameNamedChildrenBalance ==
    \A field \in {<<"try_parse_param_field", ParamFieldName, ParamOpenFrag>>,
                  <<"try_parse_response_field", ResponseFieldName, ResponseOpenFrag>>} :
        LET body == Drop(input, Len(field[3]))
            own == OwnClose(body, field[2])
        IN  (op = field[1] /\ StartsWith(input, field[3]) /\ own # None) =>
                /\ out.some
                /\ out.rest = Drop(body, own + Len(CloseTag(field[2])))

(***************************************************************************)
(* C6: a component in the body of a recursive container becomes the child  *)
(* node of that container, for every container and child.                  *)
(***************************************************************************)
ContentOf(container, node) ==
    CASE container = "Tab" -> IF node.tabs = <<>> THEN <<>> ELSE node.tabs[1].content
      [] container = "Step" -> IF node.steps = <<>> THEN <<>> ELSE node.steps[1].content
      [] container = "Accordion" -> IF node.items = <<>> THEN <<>> ELSE node.items[1].content
      [] OTHER -> node.content

C6_NestedComponentParsed ==
    \A container \in DOMAIN Containers, pad \in Pads, child \in DOMAIN ChildTexts :
        (op = "parse_content" /\ input = Wrap(container, pad, child)) =>
            /\ out.st = "ok"
            /\ Len(out.val) = 1
            /\ out.val[1].kind = Containers[container].kind
            /\ Len(ContentOf(container, out.val[1])) = 1
            /\ ContentOf(container, out.val[1])[1].kind = ChildKind(child)
            /\ ContentOf(container, out.val[1]) = parse_content(ChildTexts[child]).val

(***************************************************************************)
(* C7, as stated: after a well-formed block the remainder is the body      *)
(* text, nothing of it removed.                                            *)
(***************************************************************************)
ValidYaml == [none |-> <<>>, title |-> EntryLineFrag]

Decoded(entry) ==
    IF entry = "title" THEN [DefaultFrontmatter EXCEPT !.title = "T"] ELSE DefaultFrontmatter

Block(entry) == DelimLineFrag \o ValidYaml[entry] \o DelimLineFrag

C7_RemainderIsBody ==
    \A entry \in DOMAIN ValidYaml :
        (op = "extract_frontmatter" /\ StartsWith(input, Block(entry))) =>
            out = [fm |-> Decoded(entry), rest |-> Drop(input, Len(Block(entry)))]

(***************************************************************************)
(* C7, amended: the remainder is the body text with the whitespace at its  *)
(* two ends trimmed.                                                       *)
(***************************************************************************)
C7_RemainderIsTrimmedBody ==
    \A entry \in DOMAIN ValidYaml :
        (op = "extract_frontmatter" /\ StartsWith(input, Block(entry))) =>
            out = [fm |-> Decoded(entry), rest |-> Trim(Drop(input, Len(Block(entry))))]

C7_Witness ==
    /\ op = "extract_frontmatter"
    /\ StartsWith(input, Block("title"))
    /\ out.fm.title = "T"
    /\ out.rest # <<>>
    /\ out.rest # Drop(input, Len(Block("title")))

(***************************************************************************)
(* C8, as stated: without an opening delimiter, without a closing one, or  *)
(* with YAML that does not deserialize, the result is the default          *)
(* frontmatter and the text unchanged.                                     *)
(***************************************************************************)
Enclosed(text) ==
    Trim(Take(Drop(text, Len(Delim)), Find(Drop(text, Len(Delim)), <<"\n">> \o Delim)))

Degrades(text) ==
    \/ ~StartsWith(text, Delim)
    \/ Find(Drop(text, Len(Delim)), <<"\n">> \o Delim) = None
    \/ serde_yaml_from_str(Enclosed(text)) = <<>>

C8_DegradesToOriginalText ==
    (op = "extract_frontmatter" /\ Degrades(input)) =>
        out = [fm |-> DefaultFrontmatter, rest |-> input]

(***************************************************************************)
(* C8, amended: in those cases, decided on the trimmed text, the result is *)
(* the default frontmatter and the whole text trimmed at its two ends.     *)
(***************************************************************************)
C8_DegradesToTrimmedText ==
    (op = "extract_frontmatter" /\ Degrades(Trim(input))) =>
        out = [fm |-> DefaultFrontmatter, rest |-> Trim(input)]

C8_Witness ==
    /\ op = "extract_frontmatter"
    /\ StartsWith(input, Delim)
    /\ Find(Drop(Trim(input), Len(Delim)), <<"\n">> \o Delim) # None
    /\ serde_yaml_from_str(Enclosed(Trim(input))) = <<>>
    /\ out.rest = Trim(input)
    /\ out.rest # input

(***************************************************************************)
(* C9: only a line that is exactly --- closes the block; a line that goes  *)
(* on after the three dashes does not.                                     *)
(***************************************************************************)
\* The line break before the first line that is --- and nothing else
\* (spaces aside), or None.
ExactDelimLine(after) ==
    LET ends == {p \in Occurrences(after, <<"\n">> \o Delim, Len(after)) :
                    LET e == SkipSpaces(after, p + 1 + Len(Delim))
                    IN  e = Len(after) \/ after[e + 1] = "\n"}
    IN  IF ends = {} THEN None ELSE Min(ends)

C9_OnlyExactDelimiterCloses ==
    LET content == Trim(input)
        after == Drop(content, Len(Delim))
        end_idx == ExactDelimLine(after)
        parsed == serde_yaml_from_str(Trim(Take(after, end_idx)))
    IN  (op = "extract_frontmatter" /\ StartsWith(content, Delim)) =>
            out = IF end_idx = None \/ parsed = <<>>
                  THEN [fm |-> DefaultFrontmatter, rest |-> content]
                  ELSE [fm |-> parsed[1],
                        rest |-> TrimStart(Drop(after, end_idx + 1 + Len(Delim)))]

(***************************************************************************)
(* C10, as stated: after an unterminated <Tabs> the rest of the text is    *)
(* literal markdown; no component node comes from it.                      *)
(***************************************************************************)
UnterminatedTabs(text) ==
    /\ StartsWith(Trim(text), TabsOpenFrag)
    /\ FirstExcessClose(Drop(Trim(text), Len(TabsOpenFrag)), TabsName) = None

AfterTag(tag, r) == IF r.st = "ok" THEN Ok(<<[kind |-> "Markdown", text |-> tag]>> \o r.val) ELSE r

CodesOf(nodes) ==
    LET blocks == SelectSeq(nodes, LAMBDA n : n.kind = "CodeBlock")
    IN  [i \in 1..Len(blocks) |-> blocks[i].code]

\* The trimmed bodies of the fences of a unit sequence, in order.
BodiesOf(us) ==
    LET fences == SelectSeq(us, LAMBDA u : u.kind = "fence")
    IN  [i \in 1..Len(fences) |-> Trim(fences[i].body)]

C11_OneCodeBlockPerFence ==
    op = "parse_content" =>
        \A us \in FenceUnitSeqs :
            input = UnitsText(us) =>
                /\ out.st = "ok"
                /\ Kinds(out.val) \subseteq {"Markdown", "CodeBlock"}
                /\ CodesOf(out.val) = BodiesOf(us)

(***************************************************************************)
(* C12: transform_operation and parameters of the same name                *)
(***************************************************************************)
NamedLike(parameters, name) == {k \in DOMAIN parameters : parameters[k].name = name}

InlineNames(param_refs) ==
    {param_refs[i].item.data.name : i \in {k \in DOMAIN param_refs : param_refs[k].kind = "item"}}

OperationLevel(param_refs, parameter) ==
    \E j \in DOMAIN param_refs :
        transform_parameter(param_refs[j], OperationDoc) = Ok(<<parameter>>)

\* C12: when a path-level and an operation-level parameter share a name, the
\* parameter list of the operation holds exactly one parameter of that name
\* and it is the operation-level definition; every name defined at either
\* level is kept.
C12_OperationLevelOverrides ==
    (op = "transform_operation" /\ out.st = "ok") =>
        /\ \A name \in InlineNames(input.path_params) \cap InlineNames(input.op_params) :
            /\ Cardinality(NamedLike(out.val.parameters, name)) = 1
            /\ \A k \in NamedLike(out.val.parameters, name) :
                OperationLevel(input.op_params, out.val.parameters[k])
        /\ \A name \in InlineNames(input.path_params) \cup InlineNames(input.op_params) :
            NamedLike(out.val.parameters, name) # {}


(***************************************************************************)
(* C13: a $ref cycle among the component schemas                           *)
(***************************************************************************)
\* How deep the arrays and objects of a JSON value nest.
RECURSIVE JsonDepth(_)
JsonDepth(value) ==
    IF value.t = "array"
    THEN IF value.v = <<>> THEN 1 ELSE 1 + JsonDepth(value.v[1])
    ELSE IF value.t = "object"
    THEN IF DOMAIN value.v = {} THEN 1
         ELSE 1 + JsonDepth(value.v[CHOOSE name \in DOMAIN value.v :
                        \A other \in DOMAIN value.v :
                            JsonDepth(value.v[other]) <= JsonDepth(value.v[name])])
    ELSE 0

\* The document parse_openapi transforms: what YAML reads, else what JSON reads.
DocumentOf(content) ==
    IF serde_yaml_from_str_openapi(content) # <<>> THEN serde_yaml_from_str_openapi(content)
    ELSE serde_json_from_str_openapi(content)

HasSchemas(content, schemas) ==
    /\ DocumentOf(content) # <<>>
    /\ DocumentOf(content)[1].components = ComponentsOf(schemas)

\* C13: on a document whose component schemas form a $ref cycle (A
\* references B, B references A) parse_openapi terminates, and the example of
\* each resulting schema nests no deeper than the depth limit allows.
C13_RefCycleTerminates ==
    (op = "parse_openapi" /\ HasSchemas(input, CycleAB)) =>
        /\ out.st = "ok"
        /\ out.val.ok
        /\ \A name \in DOMAIN out.val.spec.schemas :
            JsonDepth(generate_example_json(out.val.spec.schemas[name], 0)) <= 7

\* Every document with a cycle among its component schemas overflows the
\* stack, every other document of the model is transformed.
C13_CycleOverflows ==
    (op = "parse_openapi" /\ DocumentOf(input) # <<>>) =>
        (out.st = "overflow" <=>
            \E schemas \in {CycleAB, CycleProperty, CycleItems} : HasSchemas(input, schemas))

(***************************************************************************)
(* C15: the result of parse_openapi                                        *)
(***************************************************************************)
ParseError == Ok([ok |-> FALSE, err |-> "ParseError"])

\* C15: parse_openapi returns Err(ParseError) exactly when the text reads
\* neither as YAML nor as JSON; in every other case it returns Ok with the
\* transformed document, the YAML reading first.
C15_ErrExactlyWhenNeither ==
    op = "parse_openapi" =>
        IF DocumentOf(input) = <<>> THEN out = ParseError
        ELSE /\ out.st = "ok"
             /\ out.val.ok
             /\ Ok(out.val.spec) = transform_spec(DocumentOf(input)[1])

\* C15 holds on every document without a cycle among its component schemas.
C15_ExceptCycles ==
    (op = "parse_openapi"
     /\ ~\E schemas \in {CycleAB, CycleProperty, CycleItems} : HasSchemas(input, schemas)) =>
        IF DocumentOf(input) = <<>> THEN out = ParseError
        ELSE /\ out.st = "ok"
             /\ out.val.ok
             /\ Ok(out.val.spec) = transform_spec(DocumentOf(input)[1])

(***************************************************************************)
(* C16: the depth limit of generate_example_json                           *)
(***************************************************************************)
\* n arrays, or n objects with the one property a, around a JSON value.
RECURSIVE ArrayNest(_, _)
ArrayNest(n, value) == IF n = 0 THEN value ELSE JArr(<<ArrayNest(n - 1, value)>>)

RECURSIVE ObjectNest(_, _)
ObjectNest(n, value) == IF n = 0 THEN value ELSE JObj(<<"a">> :> ObjectNest(n - 1, value))

\* C16: generate_example_json called with a depth above 5 returns the empty
\* object whatever the schema holds, an explicit example included; called
\* with a depth d of at most 5 it goes one level down per array or object,
\* so a chain of arrays or objects is cut into 6 - d levels around the empty
\* object and no example nests deeper than 7 - d.
C16_DepthLimit ==
    op = "generate_example_json" =>
        /\ input.depth > 5 => out.val = JObj(EmptyMap)
        /\ input.depth <= 5 =>
            /\ JsonDepth(out.val) <= 7 - input.depth
            /\ \A n \in (6 - input.depth)..MaxChain, leaf \in LeafDefs :
                /\ input.schema = ArrayChain(n, leaf) =>
                    out.val = ArrayNest(6 - input.depth, JObj(EmptyMap))
                /\ input.schema = ObjectChain(n, leaf) =>
                    out.val = ObjectNest(6 - input.depth, JObj(EmptyMap))

\* A schema with an explicit example, asked for at depth 6.
C16_Witness ==
    /\ op = "generate_example_json"
    /\ input.depth > 5
    /\ input.schema.example # <<>>
    /\ out.val = JObj(EmptyMap)

\* A chain of seven arrays asked for at depth 2 is cut after four levels.
C16_CutWitness ==
    /\ op = "generate_example_json"
    /\ input.depth = 2
    /\ input.schema = ArrayChain(MaxChain, StringDef)
    /\ out.val = ArrayNest(4, JObj(EmptyMap))

(***************************************************************************)
(* C17: a schema reference that does not resolve                           *)
(***************************************************************************)
\* The name a reference ends with: what follows its last '/'.
ReferencedName(reference) == Drop(reference, 1)

\* The reference names an inline schema of components.schemas.
Resolves(reference, spec) ==
    /\ Take(reference, 1) = SchemasPrefix
    /\ spec.components # <<>>
    /\ ReferencedName(reference) \in DOMAIN spec.components[1].schemas
    /\ spec.components[1].schemas[ReferencedName(reference)].kind = "item"

\* C17: a schema $ref that cannot be resolved against #/components/schemas
\* gives a SchemaDefinition whose ref_name is the referenced name and whose
\* every other field has its default value.
C17_UnresolvedRefStub ==
    (/\ op = "resolve_and_transform_schema"
     /\ input.schema_ref.kind = "ref"
     /\ ~Resolves(input.schema_ref.reference, input.spec)) =>
        out = Ok([DefaultSchemaDefinition EXCEPT
                     !.ref_name = <<ReferencedName(input.schema_ref.reference)>>])

\* C17 for the references that start with #/components/schemas/.
C17_PrefixedRefStub ==
    (/\ op = "resolve_and_transform_schema"
     /\ input.schema_ref.kind = "ref"
     /\ Take(input.schema_ref.reference, 1) = SchemasPrefix
     /\ ~Resolves(input.schema_ref.reference, input.spec)) =>
        out = Ok([DefaultSchemaDefinition EXCEPT
                     !.ref_name = <<ReferencedName(input.schema_ref.reference)>>])

\* The rest of the document is transformed around a property whose
\* reference does not resolve.
C17_RestTransformed ==
    (op = "parse_openapi"
     /\ HasSchemas(input, <<"A">> :> Item(ObjectSchema(<<"b">> :> SchemaRef(<<"B">>))))) =>
        /\ out.st = "ok"
        /\ out.val.ok
        /\ out.val.spec.schemas[<<"A">>].properties[<<"b">>]
               = [DefaultSchemaDefinition EXCEPT !.ref_name = << <<"B">> >>]
        /\ Len(out.val.spec.operations) = 1

(***************************************************************************)
(* C18: ApiOperation::slug                                                 *)
(***************************************************************************)
\* The uppercase letters among id[2..i].
InnerUppers(id, i) == Cardinality({k \in 2..i : is_uppercase(id[k])})

\* s is id in lowercase with a '-' before every uppercase letter but the first
\* character: character i of id is at place i + InnerUppers(id, i) of s.
IsKebabOf(s, id) ==
    /\ Len(s) = Len(id) + InnerUppers(id, Len(id))
    /\ \A i \in 1..Len(id) :
        /\ s[i + InnerUppers(id, i)] = to_lowercase_char(id[i])
        /\ (is_uppercase(id[i]) /\ i > 1) => s[i + InnerUppers(id, i) - 1] = "-"

\* The path without its leading and trailing slashes, every slash inside it
\* read as '-' and the braces left out.
RECURSIVE PathWords(_)
PathWords(path) ==
    IF path = <<>> THEN <<>>
    ELSE IF Head(path) = "/" THEN <<"-">> \o PathWords(Tail(path))
    ELSE IF Head(path) \in {"{", "}"} THEN PathWords(Tail(path))
    ELSE <<Head(path)>> \o PathWords(Tail(path))

ListPets == <<"l", "i", "s", "t", "P", "e", "t", "s">>

\* C18: with an operation_id, slug() is the id in lowercase with a '-' before
\* every uppercase letter that is not the first character (listPets gives
\* list-pets); without one it is the lowercase method, '-' and the path with
\* its slashes and braces taken out, the words between the slashes joined by
\* '-' (GET /pets/{id} gives get-pets-id).
C18_Slug ==
    op = "slug" =>
        IF input.operation.operation_id # <<>>
        THEN /\ IsKebabOf(out.val, input.operation.operation_id[1])
             /\ input.operation.operation_id[1] = ListPets =>
                    out.val = <<"l", "i", "s", "t", "-", "p", "e", "t", "s">>
        ELSE /\ out.val = to_lowercase(MethodStr[input.operation.method]) \o <<"-">>
                          \o PathWords(TrimMatches(input.operation.path, "/"))
             /\ \A i \in 1..Len(out.val) : out.val[i] \notin {"/", "{", "}"}
             /\ (input.operation.method = "Get" /\ input.operation.path = PetPath) =>
                    out.val = <<"g", "e", "t", "-", "pets", "-", "id">>

\* listPets has been turned into list-pets.
C18_Witness ==
    /\ op = "slug"
    /\ input.operation.operation_id = <<ListPets>>
    /\ out.val = <<"l", "i", "s", "t", "-", "p", "e", "t", "s">>

\* GET /pets/{id} without an operation_id has been turned into get-pets-id.
C18_FallbackWitness ==
    /\ op = "slug"
    /\ input.operation.operation_id = <<>>
    /\ input.operation.method = "Get"
    /\ input.operation.path = PetPath
    /\ out.val = <<"g", "e", "t", "-", "pets", "-", "id">>

(***************************************************************************)
(* C19: generate_curl                                                      *)
(***************************************************************************)
Quote == <<"\"">>

\* The URL of a curl command: what stands between its first two quotes.
UrlOf(cmd) ==
    Take(Drop(cmd, Find(cmd, Quote) + 1), Find(Drop(cmd, Find(cmd, Quote) + 1), Quote))

\* The URL up to its query string.
UrlPath(url) == IF Contains(url, <<"?">>) THEN Take(url, Find(url, <<"?">>)) ELSE url

\* The literal {name} of a path template.
Literal(name) == <<"{", name[1], "}">>

PathParams(parameters, name, with_schema) ==
    {i \in DOMAIN parameters :
        /\ parameters[i].location = "Path"
        /\ parameters[i].name = name
        /\ (parameters[i].schema # <<>>) = with_schema}

\* No example value that goes into the URL holds a brace itself.
BraceFree(parameters) ==
    \A i \in DOMAIN parameters :
        parameters[i].schema # <<>> =>
            \A k \in DOMAIN ExampleText(parameters[i].schema[1]) :
                ExampleText(parameters[i].schema[1])[k] \notin {"{", "}"}

\* The path with every {name} that some path parameter with a schema names
\* replaced by the example value of the first such parameter.
RECURSIVE ExpectedPath(_, _)
ExpectedPath(path, parameters) ==
    IF path = <<>> THEN <<>>
    ELSE IF Len(path) >= 3 /\ path[1] = "{" /\ path[3] = "}"
            /\ PathParams(parameters, <<path[2]>>, TRUE) # {}
    THEN ExampleText(parameters[CHOOSE i \in PathParams(parameters, <<path[2]>>, TRUE) :
                         \A j \in PathParams(parameters, <<path[2]>>, TRUE) : i <= j].schema[1])
         \o ExpectedPath(Drop(path, 3), parameters)
    ELSE <<Head(path)>> \o ExpectedPath(Tail(path), parameters)

\* The first half of C19, which holds as stated: -X METHOD is there exactly
\* when the method is not GET.
MethodFlag(cmd, method) ==
    /\ Contains(cmd, <<"-X">>) <=> method # "Get"
    /\ method # "Get" => Contains(cmd, <<" \\\n  ", "-X", " ">> \o MethodStr[method] \o <<" \\\n  ">>)

\* C19 as stated: -X METHOD exactly when the method is not GET; the URL holds
\* no literal {name} for a path parameter that has a schema; a path parameter
\* without a schema leaves the literal {name} of the path in the URL.
C19_NoLiteralPlaceholder ==
    op = "generate_curl" =>
        /\ MethodFlag(out.val, input.operation.method)
        /\ \A i \in DOMAIN input.operation.parameters :
            input.operation.parameters[i].location = "Path" =>
                IF input.operation.parameters[i].schema # <<>>
                THEN ~Contains(UrlOf(out.val), Literal(input.operation.parameters[i].name))
                ELSE Contains(input.operation.path, Literal(input.operation.parameters[i].name))
                        => Contains(UrlOf(out.val), Literal(input.operation.parameters[i].name))

\* C19, amended: -X METHOD exactly when the method is not GET; as long as no
\* example value that goes into the URL holds a brace itself, the URL is the
\* base URL and the path with each {name} of a path parameter that has a
\* schema replaced by its example value, so no literal {name} is left for
\* it, and the {name} of a path parameter that has no schema under that name
\* stays.
C19_Curl ==
    op = "generate_curl" =>
        /\ MethodFlag(out.val, input.operation.method)
        /\ BraceFree(input.operation.parameters) =>
            /\ UrlPath(UrlOf(out.val))
                   = TrimEndMatches(out.base_url, "/")
                     \o ExpectedPath(input.operation.path, input.operation.parameters)
            /\ \A i \in DOMAIN input.operation.parameters :
                input.operation.parameters[i].location = "Path" =>
                    IF PathParams(input.operation.parameters,
                                  input.operation.parameters[i].name, TRUE) # {}
                    THEN ~Contains(UrlOf(out.val), Literal(input.operation.parameters[i].name))
                    ELSE Contains(input.operation.path,
                                  Literal(input.operation.parameters[i].name))
                            => Contains(UrlOf(out.val),
                                        Literal(input.operation.parameters[i].name))

\* POST /pets/{id} with the path parameter id of type string: the URL ends
\* with the example value.
C19_Witness ==
    /\ op = "generate_curl"
    /\ input.operation.method = "Post"
    /\ input.operation.path = PetPath
    /\ input.operation.parameters = <<ApiParameterOf(<<"id">>, "Path", <<StringDef>>)>>
    /\ UrlOf(out.val) = <<"http://x", "/", "pets", "/", "string">>
    /\ Contains(out.val, <<"-X", " ", "P", "O", "S", "T">>)

\* A path parameter without a schema has left {id} in the URL.
C19_PlaceholderWitness ==
    /\ op = "generate_curl"
    /\ input.operation.path = PetPath
    /\ input.operation.parameters = <<ApiParameterOf(<<"id">>, "Path", <<>>)>>
    /\ UrlOf(out.val) = <<"http://x", "/", "pets", "/", "{", "id", "}">>

(***************************************************************************)
(* C20: generate_response_example                                          *)
(***************************************************************************)
\* The content entries of a response that have a schema; json_only: only
\* those of a JSON media type.
SchemaEntries(response, json_only) ==
    {k \in DOMAIN response.content :
        /\ response.content[k].schema # <<>>
        /\ json_only => Contains(response.content[k].media_type, <<"json">>)}

\* The responses with a 2xx status code and such a content entry.
Candidates(responses, json_only) ==
    {i \in DOMAIN responses :
        /\ responses[i].status_code[1] = "2"
        /\ SchemaEntries(responses[i], json_only) # {}}

Least(S) == CHOOSE i \in S : \A j \in S : i <= j

\* (status_code, pretty JSON of the example) of the first candidate and its
\* first entry, None without a candidate.
FirstExample(responses, json_only) ==
    IF Candidates(responses, json_only) = {} THEN <<>>
    ELSE << <<responses[Least(Candidates(responses, json_only))].status_code,
              to_string_pretty(generate_example_json(
                  responses[Least(Candidates(responses, json_only))]
                      .content[Least(SchemaEntries(
                          responses[Least(Candidates(responses, json_only))], json_only))]
                      .schema[1], 0))>> >>

\* C20 as stated: the result is that of the first response whose status code
\* starts with 2 and which has a JSON content entry with a schema, None when
\* there is no such response.
C20_FirstJsonResponse ==
    op = "generate_response_example" =>
        out.val = FirstExample(input.operation.responses, TRUE)

\* C20, amended: the result is (status_code, pretty JSON of the example of
\* the schema) for the first response whose status code starts with 2 and
\* which has a content entry with a schema, of whatever media type, taken
\* from the first such entry; None when there is no such response.
C20_FirstSchemaResponse ==
    op = "generate_response_example" =>
        out.val = FirstExample(input.operation.responses, FALSE)

\* A 404 with a schema comes before a 201 whose second entry has the schema:
\* the example is that of the 201.
C20_Witness ==
    /\ op = "generate_response_example"
    /\ Len(input.operation.responses) = 2
    /\ input.operation.responses[1].status_code = <<"4", "04">>
    /\ input.operation.responses[2].status_code = <<"2", "01">>
    /\ out.val # <<>>
    /\ out.val[1][1] = <<"2", "01">>

\* Only responses without a 2xx schema: no example.
C20_NoneWitness ==
    /\ op = "generate_response_example"
    /\ Len(input.operation.responses) = 2
    /\ out.val = <<>>

(***************************************************************************)
(* C14: from_config and an OpenAPI spec that does not parse                *)
(***************************************************************************)
\* The specs of a config that parse_openapi rejects with ParseError.
RejectedSpecs(config) ==
    {i \in DOMAIN config.openapi_specs : parse_openapi(config.openapi_specs[i].yaml) = ParseError}

\* Everything of the config but its rejected specs is in order: the nav reads,
\* every page parses and every other spec is transformed.
RestInOrder(config) ==
    /\ config.nav_json # <<>>
    /\ DocFailures(config.content_map) = {}
    /\ \A i \in DOMAIN config.openapi_specs \ RejectedSpecs(config) :
        /\ parse_openapi(config.openapi_specs[i].yaml).st = "ok"
        /\ parse_openapi(config.openapi_specs[i].yaml).val.ok

\* C14: building the registry from a config in which one OpenAPI spec fails
\* to parse completes, with every page and every other spec registered.
C14_FailedSpecDoesNotAbort ==
    (/\ op = "from_config"
     /\ Cardinality(RejectedSpecs(input)) = 1
     /\ RestInOrder(input)) =>
        /\ out.st = "ok"
        /\ DOMAIN out.val.parsed_docs = DOMAIN input.content_map
        /\ Len(out.val.openapi_specs) = Len(input.openapi_specs) - 1

\* What the code does: from_config returns exactly when the nav reads, every
\* page parses and every spec is transformed; a rejected spec is a panic.
C14_AllOrNothing ==
    op = "from_config" =>
        /\ out.st = "ok" <=> (RestInOrder(input) /\ RejectedSpecs(input) = {})
        /\ (RestInOrder(input) /\ RejectedSpecs(input) # {}) => out = Panics
        /\ out.st = "ok" =>
            /\ DOMAIN out.val.parsed_docs = DOMAIN input.content_map
            /\ Len(out.val.openapi_specs) = Len(input.openapi_specs)

(***************************************************************************)
(* C21, as stated: slugify lowercases its input, turns every maximal run   *)
(* of non-alphanumeric characters, whatever they are, into one '-', and    *)
(* trims the '-' at both ends.                                             *)
(***************************************************************************)
RECURSIVE SkipNonAlphanumeric(_)
SkipNonAlphanumeric(s) ==
    IF s # <<>> /\ ~is_alphanumeric(Head(s)) THEN SkipNonAlphanumeric(Tail(s)) ELSE s

RECURSIVE RunsToDash(_)
RunsToDash(s) ==
    IF s = <<>> THEN <<>>
    ELSE IF is_alphanumeric(Head(s)) THEN <<Head(s)>> \o RunsToDash(Tail(s))
    ELSE <<"-">> \o RunsToDash(SkipNonAlphanumeric(s))

Separators == WsAtoms \cup {"-", "_", "."}

C21_EveryRunToDash ==
    op = "slugify" => out.val = TrimMatches(RunsToDash(to_lowercase(input.text)), "-")

\* C21, the part that holds: when every non-alphanumeric character of the lowercased
\* input is whitespace, '-', '_' or '.', the result is as the claim describes.
C21_SeparatorRuns ==
    (op = "slugify"
     /\ \A i \in 1..Len(to_lowercase(input.text)) :
            is_alphanumeric(to_lowercase(input.text)[i])
            \/ to_lowercase(input.text)[i] \in Separators)
        => out.val = TrimMatches(RunsToDash(to_lowercase(input.text)), "-")

\* C21, amended: slugify lowercases its input, removes every character that is neither
\* alphanumeric nor whitespace, '-', '_' or '.', turns every maximal run of whitespace, '-',
\* '_' and '.' into one '-', and trims the '-' at both ends.
C21_OtherRemoved ==
    op = "slugify" =>
        out.val = TrimMatches(RunsToDash(SelectSeq(to_lowercase(input.text),
                      LAMBDA c : is_alphanumeric(c) \/ c \in Separators)), "-")

\* C21: a capital is lowercased, '!' is removed and joins its neighbours, the '.' at the
\* end is trimmed
C21_Witness ==
    /\ op = "slugify"
    /\ input.text = <<"A", "!", "b", ".">>
    /\ out.val = <<"a", "b">>

\* C21: a run of separators between two characters becomes one '-'
C21_RunWitness ==
    /\ op = "slugify"
    /\ input.text = <<"a", " ", "_", "b">>
    /\ out.val = <<"a", "-", "b">>

(***************************************************************************)
(* C22: slugify is idempotent: slugify of a slug is that slug.             *)
(***************************************************************************)
C22_Idempotent == op = "slugify" => slugify(out.val) = out.val

\* C22: a title with a capital, a removed character and a separator run
C22_Witness ==
    /\ op = "slugify"
    /\ input.text = <<"A", "!", " ", "b">>
    /\ out.val = <<"a", "-", "b">>

\* C22: the word-final sigma and the dotted capital I are lowercased once and then stay
C22_SigmaWitness ==
    /\ op = "slugify"
    /\ input.text = <<"a", "U+03A3", " ", "U+0130">>
    /\ out.val = <<"a", "U+03C2", "-", "i">>

(***************************************************************************)
(* C23, as stated: search_docs returns each entry of the index at most     *)
(* once: first the entries whose title contains the query, then those      *)
(* whose description but not title contains it, then those matched by the  *)
(* content preview only, each group in index order, the letters compared   *)
(* without regard to case; a blank query returns nothing.                  *)
(***************************************************************************)
\* Two characters that are the same letter in different cases.
Fold(c) == IF c \in {"U+03A3", "U+03C3", "U+03C2"} THEN "U+03C3" ELSE to_lowercase_char(c)

ContainsIgnoringCase(field, query) ==
    \E i \in 0..(Len(field) - Len(query)) :
        \A k \in 1..Len(query) : Fold(field[i + k]) = Fold(query[k])

MatchGroup(entry, query) ==
    IF ContainsIgnoringCase(entry.title, query) THEN 1
    ELSE IF ContainsIgnoringCase(entry.description, query) THEN 2
    ELSE IF ContainsIgnoringCase(entry.content_preview, query) THEN 3
    ELSE 0

GroupOf(index, query, g) == SelectSeq(index, LAMBDA entry : MatchGroup(entry, query) = g)

C23_GroupsIgnoringCase ==
    op = "search_docs" =>
        out.val = IF Trim(input.query) = <<>> THEN <<>>
                  ELSE GroupOf(input.registry.search_index, Trim(input.query), 1)
                       \o GroupOf(input.registry.search_index, Trim(input.query), 2)
                       \o GroupOf(input.registry.search_index, Trim(input.query), 3)

\* C23: no entry is returned twice, and every entry returned is an entry of the index.
C23_AtMostOnce ==
    op = "search_docs" =>
        /\ \A i, j \in 1..Len(out.val) : out.val[i] = out.val[j] => i = j
        /\ \A i \in 1..Len(out.val) :
               \E k \in 1..Len(input.registry.search_index) :
                   out.val[i] = input.registry.search_index[k]

\* C23: a blank query returns nothing.
C23_BlankQuery == (op = "search_docs" /\ Trim(input.query) = <<>>) => out.val = <<>>

\* C23: on queries and entries without the letter whose lowercase form depends on its
\* place in the word, the result is the three groups of the claim.
HasSigma(s) == \E i \in 1..Len(s) : s[i] = "U+03A3"

C23_GroupsWithoutSigma ==
    (op = "search_docs" /\ ~HasSigma(input.query)
     /\ \A k \in 1..Len(input.registry.search_index) :
            ~HasSigma(input.registry.search_index[k].description))
        => out.val = IF Trim(input.query) = <<>> THEN <<>>
                     ELSE GroupOf(input.registry.search_index, Trim(input.query), 1)
                          \o GroupOf(input.registry.search_index, Trim(input.query), 2)
                          \o GroupOf(input.registry.search_index, Trim(input.query), 3)

\* C23: a query that matches one entry by its content, one by its description and one by
\* its title is answered in the order title, description, content.
C23_Witness ==
    /\ op = "search_docs"
    /\ Len(out.val) = 3
    /\ MatchGroup(out.val[1], Trim(input.query)) = 1
    /\ MatchGroup(out.val[2], Trim(input.query)) = 2
    /\ MatchGroup(out.val[3], Trim(input.query)) = 3
    /\ input.registry.search_index[1] = out.val[3]

(***************************************************************************)
(* C24: the steps of a Steps body come from one format.  When the body has *)
(* Step blocks the steps are those blocks in source order and no heading   *)
(* makes a step; otherwise every heading line (### and a title) starts a   *)
(* step whose content runs to the next heading line or the end of the body.*)
(***************************************************************************)
RECURSIVE Ascending(_)
Ascending(S) == IF S = {} THEN <<>> ELSE <<Min(S)>> \o Ascending(S \ {Min(S)})

\* The lines of s from offset p on, as [from, to]: to is the offset of the newline.
RECURSIVE LinesFrom(_, _)
LinesFrom(s, p) ==
    <<[from |-> p, to |-> LineEnd(s, p)]>>
    \o (IF LineEnd(s, p) >= Len(s) THEN <<>> ELSE LinesFrom(s, LineEnd(s, p) + 1))

IsHeadingLine(s, line) ==
    /\ line.to - line.from >= 3
    /\ s[line.from + 1] = "###"
    /\ s[line.from + 2] \in WsAtoms
    /\ Trim(Slice(s, line.from + 1, line.to)) # <<>>

HeadingLines(s) == SelectSeq(LinesFrom(s, 0), LAMBDA line : IsHeadingLine(s, line))

HeadingSections(s) ==
    [i \in 1..Len(HeadingLines(s)) |->
        [title |-> Trim(Slice(s, HeadingLines(s)[i].from + 1, HeadingLines(s)[i].to)),
         inner |-> Slice(s, HeadingLines(s)[i].to,
                         IF i < Len(HeadingLines(s)) THEN HeadingLines(s)[i + 1].from
                         ELSE Len(s))]]

StepOpens(s) == Ascending({i \in 0..Len(s) : MatchesAt(s, <<"<", "Step", " ">>, i)})

StepBlocks(s) ==
    [i \in 1..Len(StepOpens(s)) |->
        [title |-> <<AttrValue(s[StepOpens(s)[i] + 4])>>,
         inner |-> Slice(s, StepOpens(s)[i] + 5,
                         FindFrom(s, CloseTag(StepName), StepOpens(s)[i] + 5))]]

ExpectedSteps(s) == IF StepBlocks(s) # <<>> THEN StepBlocks(s) ELSE HeadingSections(s)

C24_OneFormat ==
    (op = "parse_steps" /\ out.st = "ok") =>
        /\ Len(out.val) = Len(ExpectedSteps(input.text))
        /\ \A i \in 1..Len(out.val) :
               /\ out.val[i].title = ExpectedSteps(input.text)[i].title
               /\ Ok(out.val[i].content)
                      = parse_content(Trim(ExpectedSteps(input.text)[i].inner))

\* C24: a heading line before and after a Step block; the block is the only step
C24_Witness ==
    /\ op = "parse_steps"
    /\ input.text = HeadingLineFrag \o StepBlockFrag \o HeadingLineBFrag
    /\ out = Ok(<<[title |-> <<"a">>, content |-> <<[kind |-> "Markdown", text |-> <<"x">>]>>]>>)

\* C24: two heading lines without Step blocks; the first step ends where the second
\* heading starts
C24_HeadingWitness ==
    /\ op = "parse_steps"
    /\ input.text = ProseLineFrag \o HeadingLineFrag \o ProseLineFrag \o HeadingLineBFrag
    /\ out = Ok(<<[title |-> <<"a">>, content |-> <<[kind |-> "Markdown", text |-> <<"x">>]>>],
                  [title |-> <<"b">>, content |-> <<>>]>>)

(***************************************************************************)
(* C25: parse_document removes one leading frontmatter block: its content  *)
(* is the parse of everything after the first closing delimiter, so a body *)
(* that begins with a --- line and has another --- line later keeps them.  *)
(***************************************************************************)
\* The text after the leading frontmatter block, if there is one.
BodyOf(text) == extract_frontmatter(text).rest

C25_OneBlockRemoved ==
    (op = "parse_document" /\ out.st = "ok") =>
        Ok(out.val.content) = parse_content(strip_helpful_widget(strip_imports(BodyOf(input.text))))

\* C25: the frontmatter of the document is that of the leading block, whatever the body
\* holds.
C25_FrontmatterOfFirstBlock ==
    (op = "parse_document" /\ out.st = "ok") =>
        out.val.frontmatter = extract_frontmatter(input.text).fm

\* C25: when the body does not itself begin with a block that reads as frontmatter, the
\* content is the parse of the whole body.
C25_PlainBody ==
    (op = "parse_document" /\ out.st = "ok"
     /\ extract_frontmatter(BodyOf(input.text)).rest = BodyOf(input.text))
        => Ok(out.val.content)
               = parse_content(strip_helpful_widget(strip_imports(BodyOf(input.text))))

\* C25: a page whose body begins with a --- line, an entry and another --- line
C25_SecondBlock ==
    /\ op = "parse_document"
    /\ input.text = DelimLineFrag \o EntryLineFrag \o DelimLineFrag
                    \o DelimLineFrag \o EntryLineFrag \o DelimLineFrag \o ProseLineFrag
    /\ out.st = "ok"
    /\ out.val.content = <<[kind |-> "Markdown", text |-> <<"x">>]>>

(***************************************************************************)
(* C26: the import stripping of parse_mdx leaves fenced code blocks as     *)
(* they are: a line inside a fence that starts with import and ends with   *)
(* ; is in the code of the CodeBlock; only import lines outside fences are *)
(* removed.                                                                *)
(***************************************************************************)
C26_FencesUnchanged ==
    op = "parse_mdx" => (out.st = "ok" /\ CodesOf(out.val) = BodiesOf(input.units))

\* C26: the import lines outside fences are removed: the markdown nodes are the prose
\* lines only.
C26_OutsideRemoved ==
    (op = "parse_mdx" /\ out.st = "ok") =>
        \A i \in 1..Len(out.val) :
            out.val[i].kind = "Markdown" => ~Contains(out.val[i].text, <<"import">>)

\* C26: fences whose body has no line that starts with import are kept whole.
StartsWithImport(body) == StartsWith(body, <<"import">>) \/ Contains(body, <<"\n", "import">>)

C26_OtherFencesUnchanged ==
    (op = "parse_mdx"
     /\ \A i \in 1..Len(input.units) : ~StartsWithImport(input.units[i].body))
        => (out.st = "ok" /\ CodesOf(out.val) = BodiesOf(input.units))

\* C26: a fenced block whose body is an import line loses the line and the newline
\* after it; what is left is no longer a fenced block
C26_FencedImportRemoved ==
    /\ op = "parse_mdx"
    /\ input.units = <<[kind |-> "fence", body |-> ImportFrag]>>
    /\ out = Ok(<<[kind |-> "Markdown", text |-> Fence \o <<"rust", "\n">> \o Fence]>>)

\* C26: an import line after a line of code is removed from the code
C26_FencedImportLineRemoved ==
    /\ op = "parse_mdx"
    /\ input.units = <<[kind |-> "fence", body |-> <<"y", "\n">> \o ImportFrag]>>
    /\ out.st = "ok"
    /\ CodesOf(out.val) = << <<"y">> >>

(***************************************************************************)
(* C27: for every registered prefix p and every operation of its spec, the *)
(* path p/slug(operation) that the site generates (endpoint paths, search  *)
(* index, sidebar links) resolves through get_api_operation to that        *)
(* operation and is rendered with the spec of that operation.              *)
(***************************************************************************)
\* The (prefix, spec, operation) triples of a registry, in order.
Registered(registry) ==
    JoinWith([s \in 1..Len(registry.openapi_specs) |->
                 [o \in 1..Len(registry.openapi_specs[s].spec.operations) |->
                     [prefix |-> registry.openapi_specs[s].prefix,
                      spec |-> registry.openapi_specs[s].spec,
                      operation |-> registry.openapi_specs[s].spec.operations[o]]]], <<>>)

PathOf(r) == r.prefix \o <<"/">> \o slug(r.operation)

ApiEntryPaths(registry) ==
    [k \in 1..Len(SelectSeq(registry.search_index, LAMBDA entry : entry.api_method # <<>>)) |->
        SelectSeq(registry.search_index, LAMBDA entry : entry.api_method # <<>>)[k].path]

GeneratedPaths(registry) == [k \in 1..Len(Registered(registry)) |-> PathOf(Registered(registry)[k])]

C27_PathsResolveToOwnOperation ==
    /\ op = "get_api_endpoint_paths" =>
           /\ out.val = GeneratedPaths(input.registry)
           /\ ApiEntryPaths(input.registry) = GeneratedPaths(input.registry)
    /\ op = "SidebarGroup" => out.val = GeneratedPaths(input.registry)
    /\ op = "get_api_operation" =>
           \A k \in 1..Len(Registered(input.registry)) :
               input.path = PathOf(Registered(input.registry)[k])
                   => out.val = <<Registered(input.registry)[k].operation>>
    /\ op = "DocsPageContent" =>
           \A k \in 1..Len(Registered(input.registry)) :
               input.path = PathOf(Registered(input.registry)[k])
                   => out.val = [view |-> "endpoint",
                                 operation |-> Registered(input.registry)[k].operation,
                                 spec |-> Registered(input.registry)[k].spec]

\* C27: the endpoint paths and the paths of the search index are p/slug(operation), spec by
\* spec and operation by operation.
C27_EndpointPaths ==
    op = "get_api_endpoint_paths" =>
        /\ out.val = GeneratedPaths(input.registry)
        /\ ApiEntryPaths(input.registry) = GeneratedPaths(input.registry)

\* C27: with one registered spec whose operations have different slugs, every generated path
\* resolves to its operation, is rendered with the spec, and is the path of a sidebar link.
DistinctPaths(registry) ==
    \A j, k \in 1..Len(Registered(registry)) :
        PathOf(Registered(registry)[j]) = PathOf(Registered(registry)[k]) => j = k

C27_SingleSpec ==
    (Len(input.registry.openapi_specs) = 1 /\ DistinctPaths(input.registry)) =>
        /\ op = "SidebarGroup" => out.val = GeneratedPaths(input.registry)
        /\ op = "get_api_operation" =>
               \A k \in 1..Len(Registered(input.registry)) :
                   input.path = PathOf(Registered(input.registry)[k])
                       => out.val = <<Registered(input.registry)[k].operation>>
        /\ op = "DocsPageContent" =>
               \A k \in 1..Len(Registered(input.registry)) :
                   input.path = PathOf(Registered(input.registry)[k])
                       => out.val = [view |-> "endpoint",
                                     operation |-> Registered(input.registry)[k].operation,
                                     spec |-> Registered(input.registry)[k].spec]

\* C27: with several specs under different prefixes and different slugs, get_api_operation
\* still finds the operation of the path.
DistinctPrefixes(registry) ==
    \A s, t \in 1..Len(registry.openapi_specs) :
        registry.openapi_specs[s].prefix = registry.openapi_specs[t].prefix => s = t

C27_LookupAcrossSpecs ==
    (op = "get_api_operation" /\ DistinctPaths(input.registry)) =>
        \A k \in 1..Len(Registered(input.registry)) :
            input.path = PathOf(Registered(input.registry)[k])
                => out.val = <<Registered(input.registry)[k].operation>>

\* C27: the page of an operation of the second spec is rendered with the first spec
C27_RenderedWithFirstSpec ==
    /\ op = "DocsPageContent"
    /\ Len(input.registry.openapi_specs) = 2
    /\ DistinctPrefixes(input.registry) /\ DistinctPaths(input.registry)
    /\ StripPrefix(input.path, input.registry.openapi_specs[2].prefix) # <<>>
    /\ out.val.view = "endpoint"
    /\ out.val.spec = input.registry.openapi_specs[1].spec
    /\ out.val.spec # input.registry.openapi_specs[2].spec
    /\ out.val.operation \in Range(input.registry.openapi_specs[2].spec.operations)

\* C27: the sidebar link of an operation of the second spec has the prefix of the first
C27_LinkWithFirstPrefix ==
    /\ op = "SidebarGroup"
    /\ Len(input.registry.openapi_specs) = 2
    /\ DistinctPrefixes(input.registry)
    /\ out.val # GeneratedPaths(input.registry)
    /\ \A i \in 1..Len(out.val) :
           StartsWith(out.val[i], input.registry.openapi_specs[1].prefix \o <<"/">>)

\* C27: two operations of one spec with the same slug: the path of the second resolves to
\* the first
C27_SlugCollision ==
    /\ op = "get_api_operation"
    /\ Len(input.registry.openapi_specs) = 1
    /\ Len(input.registry.openapi_specs[1].spec.operations) = 2
    /\ input.path = PathOf(Registered(input.registry)[2])
    /\ out.val = <<Registered(input.registry)[1].operation>>
    /\ Registered(input.registry)[1].operation # Registered(input.registry)[2].operation

(***************************************************************************)
(* C28: every (id, title, level) that extract_headers returns for the      *)
(* raw_markdown of a document is an h2-h4 heading rendered from a Markdown *)
(* node of the document with the same id; lines inside code blocks and the *)
(* titles that get_raw_markdown writes for Tabs, Accordion and Update      *)
(* nodes make no entries.                                                  *)
(***************************************************************************)
\* The texts of the Markdown nodes of a tree, in order.
RECURSIVE MarkdownTexts(_)
NodeMarkdownTexts(n) ==
    CASE n.kind = "Markdown" -> <<n.text>>
      [] n.kind = "Tabs" -> Flatten([i \in 1..Len(n.tabs) |-> MarkdownTexts(n.tabs[i].content)])
      [] n.kind = "AccordionGroup" ->
            Flatten([i \in 1..Len(n.items) |-> MarkdownTexts(n.items[i].content)])
      [] n.kind = "Steps" ->
            Flatten([i \in 1..Len(n.steps) |-> MarkdownTexts(n.steps[i].content)])
      [] n.kind \in {"Update", "ParamField"} -> MarkdownTexts(n.content)
      [] OTHER -> <<>>

MarkdownTexts(nodes) == Flatten([i \in 1..Len(nodes) |-> NodeMarkdownTexts(nodes[i])])

\* The h2-h4 headings that the renderer makes of a Markdown text, as [id, level]: the
\* lines of 2 to 4 '#' followed by a space and a title; the id is the slug of the title.
LineHashes(s, line) == HashCount(s, line.from, HashRunEnd(s, line.from))

IsRenderedHeading(s, line) ==
    /\ HashRunEnd(s, line.from) <= line.to
    /\ LineHashes(s, line) \in 2..4
    /\ HashRunEnd(s, line.from) < line.to
    /\ s[HashRunEnd(s, line.from) + 1] = " "

RenderedHeadings(s) ==
    {[id |-> slugify(Trim(Slice(s, HashRunEnd(s, line.from), line.to))),
      level |-> LineHashes(s, line)] :
        line \in {l \in Range(LinesFrom(s, 0)) : IsRenderedHeading(s, l)}}

PageHeadings(nodes) ==
    UNION {RenderedHeadings(MarkdownTexts(nodes)[i]) : i \in 1..Len(MarkdownTexts(nodes))}

C28_EntriesAreRenderedHeadings ==
    (op = "DocsPageContent" /\ out.val.view = "doc") =>
        \A i \in 1..Len(out.val.headers) :
            [id |-> out.val.headers[i][1], level |-> out.val.headers[i][3]]
                \in PageHeadings(out.val.nodes)

\* C28: on a page whose nodes are all Markdown nodes, the entries are the rendered
\* headings and the rendered headings are the entries.
C28_ProsePages ==
    (op = "DocsPageContent" /\ out.val.view = "doc"
     /\ \A i \in 1..Len(out.val.nodes) : out.val.nodes[i].kind = "Markdown")
        => {[id |-> out.val.headers[i][1], level |-> out.val.headers[i][3]] :
                i \in 1..Len(out.val.headers)} = PageHeadings(out.val.nodes)

\* C28: a page that is one fenced code block with a line ## a has the entry a
C28_CodeLineEntry ==
    /\ op = "DocsPageContent"
    /\ out.val.view = "doc"
    /\ Len(out.val.nodes) = 1
    /\ out.val.nodes[1].kind = "CodeBlock"
    /\ out.val.headers = << <<<<"a">>, <<"a">>, 2>> >>

\* C28: a page that is one Tabs element has its tab title as an entry of level 4
C28_TabTitleEntry ==
    /\ op = "DocsPageContent"
    /\ out.val.view = "doc"
    /\ Len(out.val.nodes) = 1
    /\ out.val.nodes[1].kind = "Tabs"
    /\ out.val.headers = << <<<<"a">>, <<"a">>, 4>> >>

\* C28: headings of levels 2 to 4 in prose are entries, the heading of level 1 is not
C28_HeadingEntries ==
    /\ op = "DocsPageContent"
    /\ out.val.view = "doc"
    /\ out.val.headers = << <<<<"b">>, <<"b">>, 3>>, <<<<"a", "-", "b">>, <<"A", " ", "b">>, 4>> >>

(***************************************************************************)
(* C29: in every reachable state of the search modal, a closed modal has   *)
(* an empty query, whatever the sequence of open, typing, Enter, Escape,   *)
(* backdrop, close-button and result-click events; so the modal always     *)
(* reopens with an empty query.                                            *)
(***************************************************************************)
C29_ClosedModalHasEmptyQuery == ~out.search_open => out.query = <<>>

\* C29: every event of the modal itself that closes it empties the query.
C29_ModalEventsClear ==
    [][(op' \in {"Enter", "Escape", "BackdropClick", "CloseButtonClick", "SearchResultItem"}
        /\ ~out'.search_open) => out'.query = <<>>]_vars

\* C29: the modal was closed by the shortcut with a query in the field
C29_ClosedWithQuery ==
    /\ op = "ShortcutKey"
    /\ ~out.search_open
    /\ out.query # <<>>

\* C29: the modal is opened by the search button and shows the query of last time
C29_ReopenedWithQuery ==
    /\ op = "SearchButton"
    /\ out.search_open
    /\ out.query = <<"a">>

(***************************************************************************)
(* C30: after a click the copied indicator stays set until the timer of    *)
(* the most recent click fires: the timer of an earlier click never clears *)
(* it while the timer of a later click is pending; and once every timer    *)
(* has fired the indicator is cleared.                                     *)
(***************************************************************************)
\* The tasks whose timer is running.
Waiting == {k \in 1..Len(out.tasks) : out.tasks[k].stage = "waiting"}

C30_SetWhileTimerPending == (input.kind = "copy" /\ Waiting # {}) => out.copied

\* C30: when no task is left the indicator is cleared.
C30_ClearedWhenAllFired == (input.kind = "copy" /\ out.tasks = <<>>) => ~out.copied

\* C30: a timer sets the indicator when it starts, and the indicator is only cleared by a
\* timer that fires.
C30_ClearedOnlyByTimeout == [][(out.copied /\ ~out'.copied) => op' = "set_false"]_vars

\* C30: under fair scheduling, if the clicks stop the indicator is cleared in the end.
C30_EventuallyCleared == <>[](op # "onclick") => <>[](~out.copied)

\* C30: the timer of the first click has fired and cleared the indicator; the timer of
\* the second click has two ticks left
C30_ClearedEarly ==
    /\ op = "set_false"
    /\ ~out.copied
    /\ out.tasks = <<[stage |-> "waiting", left |-> 2]>>
====
